---- MODULE Spec2Model ----
(***************************************************************************)
(* DevQuest: the in-memory shell / git simulation of services/gitEngine.ts *)
(* (executeCommand), the status renderer of services/terminalRenderer.ts   *)
(* and the handlers of components/MissionView.tsx that drive them.         *)
(*                                                                         *)
(* executeCommand is a pure function GameState -> result; every command is *)
(* modelled as an operator from a GameState record to a CommandResult      *)
(* record, and every action of the state machine applies one of them the   *)
(* way handleCommand does.  Spec is the live session; ReplaySpec is the    *)
(* live session with its recorded lines together with handleReplay, run as *)
(* a process suspended at its awaits, and the replay controls;             *)
(* ReplayFairSpec adds the fairness of its timers; WalkSpec is the loop of *)
(* getAncestors on arbitrary commit lists.                                 *)
(*                                                                         *)
(* Representation:                                                         *)
(*  - a path or cwd is the sequence of its '/'-separated segments;         *)
(*  - the filesystem tree is a function from the path of a node to the     *)
(*    node; `children` of a node records whether the node carries a        *)
(*    children map, `content` is Undefined when it carries no content;     *)
(*  - JSON.stringify / JSON.parse of a tree are Serialize / Parse;         *)
(*  - commit ids (uuidv4().substring(0,7)) are fresh strings taken from    *)
(*    IdOf in creation order; '' is the unborn pointer;                    *)
(*  - null and undefined are the strings Null and Undefined, tested for    *)
(*    truthiness with Truthy as the code does;                             *)
(*  - timestamps, authors, owners, permissions, sizes and stash ids are    *)
(*    left out; git log prints its entries without author and date;        *)
(*  - outputs are the fixed part of the message the code prints.           *)
(***************************************************************************)
EXTENDS Integers, Sequences, FiniteSets, TLC

\* ------------------------------------------------------------------ bounds
MaxCommits == 3
MaxStash == 1
MaxHistory == 7
\* the replay specification: recorded command lines, characters typed per line
MaxReplay == 3
CmdChars == 2
\* the ancestor walk: commits of its list
MaxWalk == 3

\* ------------------------------------------------------- values of the code
Undefined == "<undefined>"
Null == "<null>"
Truthy(x) == x \notin {"", Null, Undefined}

IdOf == <<"c1", "c2", "c3", "c4", "c5">>
BranchNames == {"main", "dev"}
RemoteNames == {"origin"}
UnknownRef == "nosuch"
Messages == {"m1"}
Contents == {"x"}
NameOrder == <<"project", "readme.md", "sub">>

Contains(seq, x) == \E i \in 1..Len(seq) : seq[i] = x
Get(f, k) == IF k \in DOMAIN f THEN f[k] ELSE Undefined
Put(f, k, v) == [x \in DOMAIN f \cup {k} |-> IF x = k THEN v ELSE f[x]]
Delete(f, k) == [x \in DOMAIN f \ {k} |-> f[x]]

RECURSIVE AddAll(_, _)
\* [...new Set([...seq, ...more])]
AddAll(seq, more) ==
    IF more = <<>> THEN seq
    ELSE AddAll(IF Contains(seq, Head(more)) THEN seq ELSE Append(seq, Head(more)), Tail(more))

\* ------------------------------------------------------------- filesystem
FileNode(content) == [type |-> "file", content |-> content, children |-> FALSE]
DirNode == [type |-> "directory", content |-> Undefined, children |-> TRUE]

Some(p) == [ok |-> TRUE, p |-> p]
None == [ok |-> FALSE, p |-> <<>>]

IsPrefix(p, q) == Len(p) <= Len(q) /\ SubSeq(q, 1, Len(p)) = p

\* current.children : the root object always has children
HasChildren(fs, p) == p = <<>> \/ (p \in DOMAIN fs /\ fs[p].children)
\* current && current.children && current.children[part]
HasChild(fs, cur, part) == cur.ok /\ HasChildren(fs, cur.p) /\ Append(cur.p, part) \in DOMAIN fs
TypeOf(fs, p) == IF p = <<>> THEN "directory" ELSE fs[p].type
ContentOf(fs, p) == IF p = <<>> THEN Undefined ELSE fs[p].content

\* delete parent.children[name] : the node and its whole subtree go
RemoveSubtree(fs, p) == [q \in {x \in DOMAIN fs : ~IsPrefix(p, x)} |-> fs[q]]

\* JSON.stringify(fileSystem) and JSON.parse(snapshot)
Serialize(fs) == {<<p, fs[p].type, fs[p].content, fs[p].children>> : p \in DOMAIN fs}
Parse(snap) ==
    [p \in {e[1] : e \in snap} |->
        LET e == CHOOSE x \in snap : x[1] = p
        IN  [type |-> e[2], content |-> e[3], children |-> e[4]]]

\* path.split('/').filter(Boolean) and path.startsWith('/') for the path
\* texts of the command alphabet; a text without '/' is its own only segment
split(text) ==
    CASE text = "/" -> <<>>
      [] text = "/project" -> <<"project">>
      [] text = "/project/readme.md" -> <<"project", "readme.md">>
      [] text = "/project/sub" -> <<"project", "sub">>
      [] text = "nosuch/f" -> <<"nosuch", "f">>
      [] text = "../project" -> <<"..", "project">>
      [] text = "../readme.md" -> <<"..", "readme.md">>
      [] text = "../sub" -> <<"..", "sub">>
      [] text = "sub/.." -> <<"sub", "..">>
      [] text = "./readme.md" -> <<".", "readme.md">>
      [] OTHER -> <<text>>
startsWithSlash(text) == text \in {"/", "/project", "/project/readme.md", "/project/sub"}

RECURSIVE Walk(_, _, _, _, _)
\* the for loop of resolvePath
Walk(fs, parts, i, current, parent) ==
    IF i > Len(parts)
    THEN [parent |-> parent, node |-> current,
          name |-> IF Len(parts) > 0 THEN parts[Len(parts)] ELSE "root"]
    ELSE LET part == parts[i] IN
         IF part = "." \/ part = ".." THEN Walk(fs, parts, i + 1, current, parent)
         ELSE IF HasChild(fs, current, part)
              THEN Walk(fs, parts, i + 1, Some(Append(current.p, part)), current)
              ELSE IF i = Len(parts)
                   THEN [parent |-> current, node |-> None, name |-> part]
                   ELSE [parent |-> None, node |-> None, name |-> part]

resolvePath(fs, path, cwd) ==
    IF ~Truthy(path) THEN [parent |-> None, node |-> None, name |-> ""]
    ELSE IF path = "/" THEN [parent |-> None, node |-> Some(<<>>), name |-> "root"]
    ELSE Walk(fs, IF startsWithSlash(path) THEN split(path) ELSE cwd \o split(path),
              1, Some(<<>>), None)

\* ------------------------------------------------------------ game state
NoEditor == [open |-> FALSE, file |-> "", content |-> ""]

INITIAL_STATE ==
    [cwd |-> <<"project">>,
     fileSystem |-> (<<"project">> :> DirNode) @@
                    (<<"project", "readme.md">> :> FileNode("# My Project")),
     activeEditor |-> NoEditor,
     git |-> [commits |-> <<>>,
              branches |-> [b \in {"main"} |-> ""],
              HEAD |-> [type |-> "branch", ref |-> "main"],
              staging |-> <<>>,
              repoInitialized |-> FALSE,
              remotes |-> [r \in {} |-> 0],
              stash |-> <<>>,
              workingDirectory |-> [modified |-> <<>>, deleted |-> <<>>],
              trackedFiles |-> <<>>]]

\* the structured lines of a result: the entries of the sections of git status
NoLines == [staged |-> <<>>, modified |-> <<>>, deleted |-> <<>>, untracked |-> <<>>]
Result(output, type, newState) ==
    [output |-> output, type |-> type, newState |-> newState, structured |-> NoLines]
\* args[i] of the code (0-based); undefined past the end
A(args, i) == IF i + 1 <= Len(args) THEN args[i + 1] ELSE Undefined
\* args.indexOf(x), -1 when absent
indexOf(args, x) ==
    IF Contains(args, x)
    THEN (CHOOSE i \in 1..Len(args) : args[i] = x /\ \A j \in 1..(i - 1) : args[j] # x) - 1
    ELSE -1

WithFS(state, fs) == [state EXCEPT !.fileSystem = fs]
WithGit(state, g) == [state EXCEPT !.git = g]

\* formatOutput: the redirect of the output into a file, then the result
formatOutput(args, newState, text, type) ==
    LET redirectIndex == indexOf(args, ">")
        appendIndex == indexOf(args, ">>")
        isRedirect == redirectIndex # -1
        isAppend == appendIndex # -1
        targetFile == A(args, IF isRedirect THEN redirectIndex + 1 ELSE appendIndex + 1)
        r == resolvePath(newState.fileSystem, targetFile, newState.cwd)
        fs == newState.fileSystem
    IN  IF (isRedirect \/ isAppend) /\ Truthy(targetFile)
        THEN IF r.node.ok /\ TypeOf(fs, r.node.p) = "directory"
             THEN Result(text, type, newState)
             ELSE IF r.node.ok /\ TypeOf(fs, r.node.p) = "file"
                  THEN Result("", "success",
                              WithFS(newState, [fs EXCEPT ![r.node.p].content =
                                  IF isAppend
                                  THEN (IF Truthy(fs[r.node.p].content) THEN fs[r.node.p].content ELSE "")
                                       \o "\n" \o text
                                  ELSE text]))
                  ELSE IF r.parent.ok /\ HasChildren(fs, r.parent.p)
                       THEN Result("", "success",
                                   WithFS(newState, Put(fs, Append(r.parent.p, r.name), FileNode(text))))
                       ELSE Result(text, type, newState)
        ELSE Result(text, type, newState)

\* --------------------------------------------------- bash and filesystem
\* echo <message> > <file>   (one-word message, overwrite)
echo(args, newState) ==
    LET redirectIndex == indexOf(args, ">")
        message == IF redirectIndex = 1 THEN "" ELSE A(args, 1)
        fileName == A(args, redirectIndex + 1)
        fs == newState.fileSystem
        r == resolvePath(fs, fileName, newState.cwd)
    IN  IF redirectIndex # -1
        THEN IF ~Truthy(fileName)
             THEN formatOutput(args, newState, "bash: syntax error near unexpected token newline", "error")
             ELSE IF r.parent.ok /\ HasChildren(fs, r.parent.p)
                  THEN IF r.node.ok /\ TypeOf(fs, r.node.p) = "file"
                       THEN Result("", "success",
                                   WithFS(newState, [fs EXCEPT ![r.node.p].content = message]))
                       ELSE IF ~r.node.ok
                            THEN Result("", "success",
                                        WithFS(newState, Put(fs, Append(r.parent.p, r.name), FileNode(message))))
                            ELSE formatOutput(args, newState, "bash: Is a directory", "error")
                  ELSE formatOutput(args, newState, "bash: No such file or directory", "error")
        ELSE formatOutput(args, newState, A(args, 1), "success")

cat(args, newState) ==
    LET target == A(args, 1)
        r == resolvePath(newState.fileSystem, target, newState.cwd)
    IN  IF ~Truthy(target) THEN formatOutput(args, newState, "cat: missing operand", "error")
        ELSE IF ~r.node.ok
             THEN formatOutput(args, newState, "cat: No such file or directory", "error")
             ELSE IF TypeOf(newState.fileSystem, r.node.p) = "directory"
                  THEN formatOutput(args, newState, "cat: Is a directory", "error")
                  ELSE formatOutput(args, newState,
                                    IF Truthy(ContentOf(newState.fileSystem, r.node.p))
                                    THEN ContentOf(newState.fileSystem, r.node.p) ELSE "",
                                    "success")

vim(args, newState) ==
    LET target == A(args, 1)
        r == resolvePath(newState.fileSystem, target, newState.cwd)
        fs == newState.fileSystem
    IN  IF ~Truthy(target) THEN formatOutput(args, newState, "vim: missing operand", "error")
        ELSE IF r.node.ok /\ TypeOf(fs, r.node.p) = "directory"
             THEN formatOutput(args, newState, "vim: Is a directory", "error")
             ELSE Result("", "success",
                         [newState EXCEPT !.activeEditor =
                             [open |-> TRUE, file |-> target,
                              content |-> IF r.node.ok /\ Truthy(ContentOf(fs, r.node.p))
                                          THEN ContentOf(fs, r.node.p) ELSE ""]])

RECURSIVE CdWalk(_, _)
\* the loop of cd over target.split('/')
CdWalk(newPath, parts) ==
    IF parts = <<>> THEN newPath
    ELSE LET p == Head(parts) IN
         CdWalk(IF p = ".." THEN (IF newPath = <<>> THEN <<>> ELSE SubSeq(newPath, 1, Len(newPath) - 1))
                ELSE IF p # "." THEN Append(newPath, p) ELSE newPath,
                Tail(parts))

\* cd that moves the cwd before it knows the target is a directory
cd_MovesBeforeCheck(args, newState) ==
    LET target == A(args, 1)
        r == resolvePath(newState.fileSystem, target, newState.cwd)
        moved == [newState EXCEPT !.cwd = IF startsWithSlash(target) THEN split(target)
                                          ELSE CdWalk(newState.cwd, split(target))]
    IN  IF ~Truthy(target) THEN formatOutput(args, newState, "", "success")
        ELSE IF ~r.node.ok \/ TypeOf(newState.fileSystem, r.node.p) # "directory"
             THEN formatOutput(args, moved, "cd: No such file or directory", "error")
             ELSE formatOutput(args, moved, "", "success")

cd(args, newState) ==
    LET target == A(args, 1)
        r == resolvePath(newState.fileSystem, target, newState.cwd)
    IN  IF ~Truthy(target) THEN formatOutput(args, newState, "", "success")
        ELSE IF ~r.node.ok \/ TypeOf(newState.fileSystem, r.node.p) # "directory"
             THEN formatOutput(args, newState, "cd: No such file or directory", "error")
             ELSE formatOutput(args,
                               [newState EXCEPT !.cwd = IF startsWithSlash(target) THEN split(target)
                                                        ELSE CdWalk(newState.cwd, split(target))],
                               "", "success")

touch(args, newState) ==
    LET target == A(args, 1)
        fs == newState.fileSystem
        r == resolvePath(fs, target, newState.cwd)
    IN  IF ~Truthy(target) THEN formatOutput(args, newState, "touch: missing operand", "error")
        ELSE IF r.node.ok THEN formatOutput(args, newState, "", "success")
        ELSE IF r.parent.ok /\ HasChildren(fs, r.parent.p)
             THEN formatOutput(args, WithFS(newState, Put(fs, Append(r.parent.p, r.name), FileNode(""))),
                               "", "success")
             ELSE formatOutput(args, newState, "touch: No such file or directory", "error")

mkdir(args, newState) ==
    LET target == A(args, 1)
        fs == newState.fileSystem
        r == resolvePath(fs, target, newState.cwd)
    IN  IF ~Truthy(target) THEN formatOutput(args, newState, "mkdir: missing operand", "error")
        ELSE IF r.node.ok
             THEN formatOutput(args, newState, "mkdir: cannot create directory: File exists", "error")
             ELSE IF r.parent.ok /\ HasChildren(fs, r.parent.p)
                  THEN formatOutput(args, WithFS(newState, Put(fs, Append(r.parent.p, r.name), DirNode)),
                                    "", "success")
                  ELSE formatOutput(args, newState,
                                    "mkdir: cannot create directory: No such file or directory", "error")

\* args.find(a => !a.startsWith('-')) : the command word itself is the first such argument
rm(args, newState) ==
    LET target == A(args, 0)
        fs == newState.fileSystem
        r == resolvePath(fs, target, newState.cwd)
    IN  IF ~r.node.ok THEN formatOutput(args, newState, "rm: No such file or directory", "error")
        ELSE IF TypeOf(fs, r.node.p) = "directory" /\ ~Contains(args, "-rf") /\ ~Contains(args, "-r")
             THEN formatOutput(args, newState, "rm: Is a directory", "error")
             ELSE IF r.parent.ok /\ HasChildren(fs, r.parent.p)
                  THEN formatOutput(args, WithFS(newState, RemoveSubtree(fs, Append(r.parent.p, r.name))),
                                    "", "success")
                  ELSE formatOutput(args, newState, "rm: unknown error", "error")

\* ------------------------------------------------------------------- git
NoCommit == [id |-> "", message |-> <<>>, parentId |-> Null,
             mergeParentId |-> Undefined, treeSnapshot |-> {}]
\* commits.find(c => c.id === id)
FindCommit(commits, id) ==
    IF \E i \in 1..Len(commits) : commits[i].id = id
    THEN [ok |-> TRUE, c |-> commits[CHOOSE i \in 1..Len(commits) :
                                 commits[i].id = id /\ \A j \in 1..(i - 1) : commits[j].id # id]]
    ELSE [ok |-> FALSE, c |-> NoCommit]
HasCommit(commits, id) == \E i \in 1..Len(commits) : commits[i].id = id

\* an id generator that hands out the id of the newest commit again
NewId_Repeats(commits) == IdOf[IF Len(commits) = 0 THEN 1 ELSE Len(commits)]

\* uuidv4().substring(0, 7): an id no commit of the list has
NewId(commits) == IdOf[Len(commits) + 1]

\* obj[k] = v as the next command sees it: JSON.stringify drops a key whose
\* value is undefined
Assign(f, k, v) == IF v = Undefined THEN Delete(f, k) ELSE Put(f, k, v)

RECURSIVE AncLoop(_, _, _)
\* the while loop of getAncestors; ancestors keeps the insertion order of the Set
AncLoop(stack, ancestors, allCommits) ==
    IF stack = <<>> THEN ancestors
    ELSE LET current == stack[Len(stack)]
             rest == SubSeq(stack, 1, Len(stack) - 1)
             f == FindCommit(allCommits, current)
             s1 == IF f.ok /\ Truthy(f.c.parentId) THEN Append(rest, f.c.parentId) ELSE rest
             s2 == IF f.ok /\ Truthy(f.c.mergeParentId) THEN Append(s1, f.c.mergeParentId) ELSE s1
         IN  IF Truthy(current) /\ ~Contains(ancestors, current)
             THEN AncLoop(s2, Append(ancestors, current), allCommits)
             ELSE AncLoop(rest, ancestors, allCommits)

getAncestors(commitId, allCommits) == AncLoop(<<commitId>>, <<>>, allCommits)

\* HEAD.type === 'branch' ? branches[HEAD.ref] : HEAD.ref
HeadCommit(g) == IF g.HEAD.type = "branch" THEN Get(g.branches, g.HEAD.ref) ELSE g.HEAD.ref

git_init(args, newState) ==
    formatOutput(args, [newState EXCEPT !.git.repoInitialized = TRUE],
                 "Initialized empty Git repository", "success")

git_remote(args, newState) ==
    IF A(args, 2) = "add" /\ Truthy(A(args, 3))
    THEN formatOutput(args,
             [newState EXCEPT !.git.remotes =
                 Put(@, A(args, 3),
                     [url |-> IF Truthy(A(args, 4)) THEN A(args, 4) ELSE "https://github.com/user/repo.git",
                      commits |-> <<>>,
                      branches |-> [b \in {} |-> ""]])],
             "", "success")
    ELSE IF A(args, 2) = "-v" THEN formatOutput(args, newState, "remotes", "success")
    ELSE formatOutput(args, newState, "Command not found: git", "error")

\* the names of the files directly inside directory p, in key order
FileChildren(fs, p) ==
    SelectSeq(NameOrder, LAMBDA n : Append(p, n) \in DOMAIN fs /\ fs[Append(p, n)].type = "file")

RECURSIVE AddFiles(_, _, _)
\* files.forEach of git add
AddFiles(files, g, st) ==
    IF files = <<>> THEN g
    ELSE LET f == Head(files)
             r == resolvePath(st.fileSystem, f, st.cwd)
         IN  AddFiles(Tail(files),
                      IF r.node.ok /\ TypeOf(st.fileSystem, r.node.p) = "file"
                      THEN [g EXCEPT !.staging = AddAll(@, <<f>>),
                                     !.workingDirectory.modified = SelectSeq(@, LAMBDA file : file # f)]
                      ELSE g,
                      st)

git_add(args, newState) ==
    LET files == SubSeq(args, 3, Len(args))
        fs == newState.fileSystem
        r == resolvePath(fs, ".", newState.cwd)
        names == FileChildren(fs, r.node.p)
        g == newState.git
    IN  IF Contains(files, ".")
        THEN IF r.node.ok /\ HasChildren(fs, r.node.p)
             THEN formatOutput(args,
                      WithGit(newState,
                          [g EXCEPT !.staging = AddAll(@, names),
                                    !.workingDirectory.modified =
                                        SelectSeq(@, LAMBDA f : ~Contains(names, f))]),
                      "", "success")
             ELSE formatOutput(args, newState, "", "success")
        ELSE formatOutput(args, WithGit(newState, AddFiles(files, g, newState)), "", "success")

\* git commit that appends the commit and leaves the acting branch where it was
git_commit_NoAdvance(args, newState) ==
    LET mIndex == indexOf(args, "-m")
        g == newState.git
        msg == A(args, mIndex + 1)
        parentId == IF g.HEAD.type = "branch"
                    THEN (IF Truthy(Get(g.branches, g.HEAD.ref)) THEN Get(g.branches, g.HEAD.ref) ELSE Null)
                    ELSE g.HEAD.ref
        commit == [id |-> NewId(g.commits), message |-> <<msg>>, parentId |-> parentId,
                   mergeParentId |-> Undefined,
                   treeSnapshot |-> Serialize(newState.fileSystem)]
        g1 == [g EXCEPT !.trackedFiles = AddAll(@, g.staging),
                        !.commits = Append(@, commit),
                        !.staging = <<>>]
    IN  IF mIndex = -1 \/ ~Truthy(msg)
        THEN formatOutput(args, newState, "error: switch m requires a value", "error")
        ELSE IF Len(g.staging) = 0
             THEN formatOutput(args, newState, "nothing to commit, working tree clean", "info")
             ELSE formatOutput(args, WithGit(newState, g1), "committed", "success")

\* git commit without the check of the staging list
git_commit_NoStagingCheck(args, newState) ==
    LET mIndex == indexOf(args, "-m")
        g == newState.git
        msg == A(args, mIndex + 1)
        newId == NewId(g.commits)
        parentId == IF g.HEAD.type = "branch"
                    THEN (IF Truthy(Get(g.branches, g.HEAD.ref)) THEN Get(g.branches, g.HEAD.ref) ELSE Null)
                    ELSE g.HEAD.ref
        commit == [id |-> newId, message |-> <<msg>>, parentId |-> parentId,
                   mergeParentId |-> Undefined,
                   treeSnapshot |-> Serialize(newState.fileSystem)]
        g1 == [g EXCEPT !.trackedFiles = AddAll(@, g.staging),
                        !.commits = Append(@, commit),
                        !.staging = <<>>]
        g2 == IF g.HEAD.type = "branch"
              THEN [g1 EXCEPT !.branches = Put(@, g.HEAD.ref, newId)]
              ELSE [g1 EXCEPT !.HEAD.ref = newId]
    IN  IF mIndex = -1 \/ ~Truthy(msg)
        THEN formatOutput(args, newState, "error: switch m requires a value", "error")
        ELSE formatOutput(args, WithGit(newState, g2), "committed", "success")

git_commit(args, newState) ==
    LET mIndex == indexOf(args, "-m")
        g == newState.git
        msg == A(args, mIndex + 1)
        newId == NewId(g.commits)
        parentId == IF g.HEAD.type = "branch"
                    THEN (IF Truthy(Get(g.branches, g.HEAD.ref)) THEN Get(g.branches, g.HEAD.ref) ELSE Null)
                    ELSE g.HEAD.ref
        commit == [id |-> newId, message |-> <<msg>>, parentId |-> parentId,
                   mergeParentId |-> Undefined,
                   treeSnapshot |-> Serialize(newState.fileSystem)]
        g1 == [g EXCEPT !.trackedFiles = AddAll(@, g.staging),
                        !.commits = Append(@, commit),
                        !.staging = <<>>]
        g2 == IF g.HEAD.type = "branch"
              THEN [g1 EXCEPT !.branches = Put(@, g.HEAD.ref, newId)]
              ELSE [g1 EXCEPT !.HEAD.ref = newId]
    IN  IF mIndex = -1 \/ ~Truthy(msg)
        THEN formatOutput(args, newState, "error: switch m requires a value", "error")
        ELSE IF Len(g.staging) = 0
             THEN formatOutput(args, newState, "nothing to commit, working tree clean", "info")
             ELSE formatOutput(args, WithGit(newState, g2), "committed", "success")

\* renderGitBranch is a pure read of the state
git_branch(args, newState) ==
    LET g == newState.git
        a2 == A(args, 2)
        a3 == A(args, 3)
        oldName == g.HEAD.ref
        headCommit == HeadCommit(g)
    IN  IF a2 = "-M" /\ Truthy(a3) /\ g.HEAD.type = "branch"
        THEN formatOutput(args,
                 WithGit(newState,
                     [g EXCEPT !.branches = Delete(Assign(g.branches, a3, Get(g.branches, oldName)), oldName),
                               !.HEAD.ref = a3]),
                 "", "success")
        ELSE IF a2 = "-d" /\ Truthy(a3)
        THEN IF ~Truthy(Get(g.branches, a3))
             THEN formatOutput(args, newState, "error: branch not found.", "error")
             ELSE IF g.HEAD.type = "branch" /\ g.HEAD.ref = a3
                  THEN formatOutput(args, newState, "error: Cannot delete branch checked out.", "error")
                  ELSE formatOutput(args, WithGit(newState, [g EXCEPT !.branches = Delete(@, a3)]),
                                    "Deleted branch", "success")
        ELSE IF ~Truthy(a2)
        THEN Result("branch list", "git-branch", newState)
        ELSE IF Truthy(Get(g.branches, a2))
        THEN formatOutput(args, newState, "fatal: A branch already exists.", "error")
        ELSE formatOutput(args,
                 WithGit(newState,
                     [g EXCEPT !.branches = Put(@, a2, IF Truthy(headCommit) THEN headCommit ELSE "")]),
                 "", "success")

\* git checkout that saves the index on the stash stack at every switch
git_checkout_AutoStash(args, newState) ==
    LET g == newState.git
        isSwitch == A(args, 1) = "switch"
        createBranch == A(args, 2) = "-b" \/ (isSwitch /\ A(args, 2) = "-c")
        target == IF createBranch THEN A(args, 3) ELSE A(args, 2)
        headCommit == HeadCommit(g)
        cid == Get(g.branches, target)
        c == FindCommit(g.commits, cid)
        saved == [staging |-> g.staging,
                  fileSnapshot |-> Serialize(newState.fileSystem),
                  message |-> <<"WIP on", g.HEAD.ref>>]
        switched == [newState EXCEPT !.git.HEAD = [type |-> "branch", ref |-> target],
                                     !.git.stash = Append(@, saved)]
    IN  IF createBranch
        THEN IF Truthy(Get(g.branches, target))
             THEN formatOutput(args, newState, "fatal: A branch already exists.", "error")
             ELSE formatOutput(args,
                      WithGit(newState,
                          [g EXCEPT !.branches = Assign(@, target, headCommit),
                                    !.HEAD = [type |-> "branch", ref |-> target]]),
                      "Switched to a new branch", "success")
        ELSE IF Get(g.branches, target) # Undefined
             THEN formatOutput(args,
                      IF Truthy(cid) /\ c.ok
                      THEN WithFS(switched, Parse(c.c.treeSnapshot))
                      ELSE switched,
                      "Switched to branch", "success")
             ELSE formatOutput(args, newState, "error: pathspec did not match any file(s) known to git", "error")

\* git checkout that moves HEAD and leaves the working tree as it is
git_checkout_KeepsTree(args, newState) ==
    LET g == newState.git
        isSwitch == A(args, 1) = "switch"
        createBranch == A(args, 2) = "-b" \/ (isSwitch /\ A(args, 2) = "-c")
        target == IF createBranch THEN A(args, 3) ELSE A(args, 2)
        headCommit == HeadCommit(g)
        switched == [newState EXCEPT !.git.HEAD = [type |-> "branch", ref |-> target]]
    IN  IF createBranch
        THEN IF Truthy(Get(g.branches, target))
             THEN formatOutput(args, newState, "fatal: A branch already exists.", "error")
             ELSE formatOutput(args,
                      WithGit(newState,
                          [g EXCEPT !.branches = Assign(@, target, headCommit),
                                    !.HEAD = [type |-> "branch", ref |-> target]]),
                      "Switched to a new branch", "success")
        ELSE IF Get(g.branches, target) # Undefined
             THEN formatOutput(args, switched, "Switched to branch", "success")
             ELSE formatOutput(args, newState, "error: pathspec did not match any file(s) known to git", "error")

\* git checkout that detaches HEAD at a commit when the target names one
git_checkout_Detaches(args, newState) ==
    LET g == newState.git
        isSwitch == A(args, 1) = "switch"
        createBranch == A(args, 2) = "-b" \/ (isSwitch /\ A(args, 2) = "-c")
        target == IF createBranch THEN A(args, 3) ELSE A(args, 2)
        headCommit == HeadCommit(g)
        cid == Get(g.branches, target)
        c == FindCommit(g.commits, cid)
        switched == [newState EXCEPT !.git.HEAD = [type |-> "branch", ref |-> target]]
    IN  IF createBranch
        THEN IF Truthy(Get(g.branches, target))
             THEN formatOutput(args, newState, "fatal: A branch already exists.", "error")
             ELSE formatOutput(args,
                      WithGit(newState,
                          [g EXCEPT !.branches = Assign(@, target, headCommit),
                                    !.HEAD = [type |-> "branch", ref |-> target]]),
                      "Switched to a new branch", "success")
        ELSE IF Get(g.branches, target) # Undefined
             THEN formatOutput(args,
                      IF Truthy(cid) /\ c.ok
                      THEN WithFS(switched, Parse(c.c.treeSnapshot))
                      ELSE switched,
                      "Switched to branch", "success")
             ELSE IF HasCommit(g.commits, target)
             THEN formatOutput(args,
                      [newState EXCEPT !.git.HEAD = [type |-> "commit", ref |-> target],
                                       !.fileSystem = Parse(FindCommit(g.commits, target).c.treeSnapshot)],
                      "HEAD is now at", "success")
             ELSE formatOutput(args, newState, "error: pathspec did not match any file(s) known to git", "error")

git_checkout(args, newState) ==
    LET g == newState.git
        isSwitch == A(args, 1) = "switch"
        createBranch == A(args, 2) = "-b" \/ (isSwitch /\ A(args, 2) = "-c")
        target == IF createBranch THEN A(args, 3) ELSE A(args, 2)
        headCommit == HeadCommit(g)
        cid == Get(g.branches, target)
        c == FindCommit(g.commits, cid)
        switched == [newState EXCEPT !.git.HEAD = [type |-> "branch", ref |-> target]]
    IN  IF createBranch
        THEN IF Truthy(Get(g.branches, target))
             THEN formatOutput(args, newState, "fatal: A branch already exists.", "error")
             ELSE formatOutput(args,
                      WithGit(newState,
                          [g EXCEPT !.branches = Assign(@, target, headCommit),
                                    !.HEAD = [type |-> "branch", ref |-> target]]),
                      "Switched to a new branch", "success")
        ELSE IF Get(g.branches, target) # Undefined
             THEN formatOutput(args,
                      IF Truthy(cid) /\ c.ok
                      THEN WithFS(switched, Parse(c.c.treeSnapshot))
                      ELSE switched,
                      "Switched to branch", "success")
             ELSE formatOutput(args, newState, "error: pathspec did not match any file(s) known to git", "error")

\* git merge that records the merge commit with its first parent only
git_merge_SingleParent(args, newState) ==
    LET g == newState.git
        targetBranch == A(args, 2)
        currentBranch == g.HEAD.ref
        currentCommitId == Get(g.branches, currentBranch)
        targetCommitId == Get(g.branches, targetBranch)
        newId == NewId(g.commits)
        mergeCommit == [id |-> newId,
                        message |-> <<"Merge branch", targetBranch, "into", currentBranch>>,
                        parentId |-> currentCommitId,
                        mergeParentId |-> Undefined,
                        treeSnapshot |-> Serialize(newState.fileSystem)]
    IN  IF ~Truthy(targetBranch) THEN formatOutput(args, newState, "merge: missing operand", "error")
        ELSE IF ~Truthy(targetCommitId)
        THEN formatOutput(args, newState, "merge: not something we can merge", "error")
        ELSE IF ~Truthy(currentCommitId)
        THEN formatOutput(args, newState, "Nothing to merge.", "info")
        ELSE IF currentCommitId = targetCommitId
        THEN formatOutput(args, newState, "Already up to date.", "success")
        ELSE formatOutput(args,
                 WithGit(newState,
                     [g EXCEPT !.commits = Append(@, mergeCommit),
                               !.branches = Put(@, currentBranch, newId)]),
                 "Merge made by the 'ort' strategy.", "success")

git_merge(args, newState) ==
    LET g == newState.git
        targetBranch == A(args, 2)
        currentBranch == g.HEAD.ref
        currentCommitId == Get(g.branches, currentBranch)
        targetCommitId == Get(g.branches, targetBranch)
        newId == NewId(g.commits)
        mergeCommit == [id |-> newId,
                        message |-> <<"Merge branch", targetBranch, "into", currentBranch>>,
                        parentId |-> currentCommitId,
                        mergeParentId |-> targetCommitId,
                        treeSnapshot |-> Serialize(newState.fileSystem)]
    IN  IF ~Truthy(targetBranch) THEN formatOutput(args, newState, "merge: missing operand", "error")
        ELSE IF ~Truthy(targetCommitId)
        THEN formatOutput(args, newState, "merge: not something we can merge", "error")
        ELSE IF ~Truthy(currentCommitId)
        THEN formatOutput(args, newState, "Nothing to merge.", "info")
        ELSE IF currentCommitId = targetCommitId
        THEN formatOutput(args, newState, "Already up to date.", "success")
        ELSE formatOutput(args,
                 WithGit(newState,
                     [g EXCEPT !.commits = Append(@, mergeCommit),
                               !.branches = Put(@, currentBranch, newId)]),
                 "Merge made by the 'ort' strategy.", "success")

\* a push loop that copies the tip and none of its ancestors
PushLoop_TipOnly(ancestors, remoteCommits, localCommits) ==
    IF ancestors = <<>> THEN remoteCommits
    ELSE LET aid == Head(ancestors)
             commitToAdd == FindCommit(localCommits, aid)
         IN  IF ~HasCommit(remoteCommits, aid) /\ commitToAdd.ok
             THEN Append(remoteCommits, commitToAdd.c)
             ELSE remoteCommits

RECURSIVE PushLoop_CopiesHeld(_, _, _)
\* a push loop that copies an ancestor whether or not the remote holds it
PushLoop_CopiesHeld(ancestors, remoteCommits, localCommits) ==
    IF ancestors = <<>> THEN remoteCommits
    ELSE LET aid == Head(ancestors)
             commitToAdd == FindCommit(localCommits, aid)
         IN  PushLoop_CopiesHeld(Tail(ancestors),
                                 IF commitToAdd.ok
                                 THEN Append(remoteCommits, commitToAdd.c)
                                 ELSE remoteCommits,
                                 localCommits)

RECURSIVE PushLoop(_, _, _)
\* ancestors.forEach of git push: copy what the remote does not hold
PushLoop(ancestors, remoteCommits, localCommits) ==
    IF ancestors = <<>> THEN remoteCommits
    ELSE LET aid == Head(ancestors)
             commitToAdd == FindCommit(localCommits, aid)
         IN  PushLoop(Tail(ancestors),
                      IF ~HasCommit(remoteCommits, aid) /\ commitToAdd.ok
                      THEN Append(remoteCommits, commitToAdd.c)
                      ELSE remoteCommits,
                      localCommits)

git_push(args, newState) ==
    LET g == newState.git
        remoteName == IF A(args, 2) = "-u" THEN A(args, 3)
                      ELSE IF ~Truthy(A(args, 3)) THEN "origin" ELSE A(args, 2)
        branch0 == IF A(args, 2) = "-u" THEN A(args, 4)
                   ELSE IF ~Truthy(A(args, 3)) THEN A(args, 2) ELSE A(args, 3)
        branchName == IF ~Truthy(branch0) THEN g.HEAD.ref ELSE branch0
        localCommitId == Get(g.branches, branchName)
        ancestors == getAncestors(localCommitId, g.commits)
    IN  IF ~Truthy(remoteName) \/ remoteName \notin DOMAIN g.remotes
        THEN formatOutput(args, newState, "fatal: does not appear to be a git repository", "error")
        ELSE IF ~Truthy(localCommitId)
        THEN formatOutput(args, newState, "error: src refspec does not match any.", "error")
        ELSE formatOutput(args,
                 WithGit(newState,
                     [g EXCEPT !.remotes[remoteName] =
                         [@ EXCEPT !.commits = PushLoop(ancestors, @, g.commits),
                                   !.branches = Put(@, branchName, localCommitId)]]),
                 "To remote", "success")

\* git stash whose pop restores the tree and forgets the saved index
git_stash_PopForgetsIndex(args, newState) ==
    LET g == newState.git
        subSubCmd == A(args, 2)
        stashEntry == [staging |-> g.staging,
                       fileSnapshot |-> Serialize(newState.fileSystem),
                       message |-> IF Truthy(A(args, 3)) THEN <<A(args, 3)>>
                                   ELSE <<"WIP on", g.HEAD.ref>>]
        entry == g.stash[Len(g.stash)]
    IN  IF ~Truthy(subSubCmd) \/ subSubCmd = "push"
        THEN IF Len(g.staging) = 0
             THEN formatOutput(args, newState, "No local changes to save", "info")
             ELSE formatOutput(args,
                      WithGit(newState, [g EXCEPT !.stash = Append(@, stashEntry), !.staging = <<>>]),
                      "Saved working directory and index state", "success")
        ELSE IF subSubCmd = "pop" \/ subSubCmd = "apply"
        THEN IF Len(g.stash) = 0
             THEN formatOutput(args, newState, "No stash entries found.", "error")
             ELSE formatOutput(args,
                      [newState EXCEPT
                          !.git.stash = IF subSubCmd = "pop" THEN SubSeq(@, 1, Len(@) - 1) ELSE @,
                          !.fileSystem = Parse(entry.fileSnapshot)],
                      "Applied stash", "success")
        ELSE IF subSubCmd = "list"
        THEN IF Len(g.stash) = 0 THEN formatOutput(args, newState, "", "success")
             ELSE formatOutput(args, newState, "stash list", "info")
        ELSE IF subSubCmd = "clear"
        THEN formatOutput(args, [newState EXCEPT !.git.stash = <<>>], "", "success")
        ELSE formatOutput(args, newState, "Usage: git stash [push|pop|apply|list|clear]", "info")

\* git stash whose pop and apply take the oldest entry of the stack
git_stash_PopsOldest(args, newState) ==
    LET g == newState.git
        subSubCmd == A(args, 2)
        stashEntry == [staging |-> g.staging,
                       fileSnapshot |-> Serialize(newState.fileSystem),
                       message |-> IF Truthy(A(args, 3)) THEN <<A(args, 3)>>
                                   ELSE <<"WIP on", g.HEAD.ref>>]
        entry == g.stash[1]
    IN  IF ~Truthy(subSubCmd) \/ subSubCmd = "push"
        THEN IF Len(g.staging) = 0
             THEN formatOutput(args, newState, "No local changes to save", "info")
             ELSE formatOutput(args,
                      WithGit(newState, [g EXCEPT !.stash = Append(@, stashEntry), !.staging = <<>>]),
                      "Saved working directory and index state", "success")
        ELSE IF subSubCmd = "pop" \/ subSubCmd = "apply"
        THEN IF Len(g.stash) = 0
             THEN formatOutput(args, newState, "No stash entries found.", "error")
             ELSE formatOutput(args,
                      [newState EXCEPT
                          !.git.stash = IF subSubCmd = "pop" THEN Tail(@) ELSE @,
                          !.git.staging = entry.staging,
                          !.fileSystem = Parse(entry.fileSnapshot)],
                      "Applied stash", "success")
        ELSE IF subSubCmd = "list"
        THEN IF Len(g.stash) = 0 THEN formatOutput(args, newState, "", "success")
             ELSE formatOutput(args, newState, "stash list", "info")
        ELSE IF subSubCmd = "clear"
        THEN formatOutput(args, [newState EXCEPT !.git.stash = <<>>], "", "success")
        ELSE formatOutput(args, newState, "Usage: git stash [push|pop|apply|list|clear]", "info")

git_stash(args, newState) ==
    LET g == newState.git
        subSubCmd == A(args, 2)
        stashEntry == [staging |-> g.staging,
                       fileSnapshot |-> Serialize(newState.fileSystem),
                       message |-> IF Truthy(A(args, 3)) THEN <<A(args, 3)>>
                                   ELSE <<"WIP on", g.HEAD.ref>>]
        entry == g.stash[Len(g.stash)]
    IN  IF ~Truthy(subSubCmd) \/ subSubCmd = "push"
        THEN IF Len(g.staging) = 0
             THEN formatOutput(args, newState, "No local changes to save", "info")
             ELSE formatOutput(args,
                      WithGit(newState, [g EXCEPT !.stash = Append(@, stashEntry), !.staging = <<>>]),
                      "Saved working directory and index state", "success")
        ELSE IF subSubCmd = "pop" \/ subSubCmd = "apply"
        THEN IF Len(g.stash) = 0
             THEN formatOutput(args, newState, "No stash entries found.", "error")
             ELSE formatOutput(args,
                      [newState EXCEPT
                          !.git.stash = IF subSubCmd = "pop" THEN SubSeq(@, 1, Len(@) - 1) ELSE @,
                          !.git.staging = entry.staging,
                          !.fileSystem = Parse(entry.fileSnapshot)],
                      "Applied stash", "success")
        ELSE IF subSubCmd = "list"
        THEN IF Len(g.stash) = 0 THEN formatOutput(args, newState, "", "success")
             ELSE formatOutput(args, newState, "stash list", "info")
        ELSE IF subSubCmd = "clear"
        THEN formatOutput(args, [newState EXCEPT !.git.stash = <<>>], "", "success")
        ELSE formatOutput(args, newState, "Usage: git stash [push|pop|apply|list|clear]", "info")

\* targetRef.includes('~'), targetRef.split('~')[0] and parseInt(parts[1]) || 1
\* for the ref texts of the command alphabet
hasTilde(ref) == ref \in {"HEAD~1", "HEAD~2"}
tildeBase(ref) == IF hasTilde(ref) THEN "HEAD" ELSE ref
tildeSteps(ref) == CASE ref = "HEAD~1" -> 1 [] ref = "HEAD~2" -> 2 [] OTHER -> 0

\* a.startsWith('-') for the argument texts of the command alphabet
startsWithDash(a) == a \in {"-b", "-c", "-d", "-M", "-m", "-u", "-v", "-r", "-rf", "-q",
                            "--hard", "--soft", "--mixed"}

\* a walk that ignores the ~N of the ref
WalkBack_Ignored(stepsBack, targetCommitId, commits) == targetCommitId

RECURSIVE WalkBack(_, _, _)
\* for (i < stepsBack && targetCommitId): follow parentId while there is one
WalkBack(stepsBack, targetCommitId, commits) ==
    IF stepsBack = 0 \/ ~Truthy(targetCommitId) THEN targetCommitId
    ELSE LET commit == FindCommit(commits, targetCommitId)
         IN  WalkBack(stepsBack - 1,
                      IF commit.ok /\ Truthy(commit.c.parentId) THEN commit.c.parentId ELSE targetCommitId,
                      commits)

git_reset(args, newState) ==
    LET g == newState.git
        mode == A(args, 2)
        ref0 == IF ~Truthy(A(args, 3)) THEN "HEAD" ELSE A(args, 3)
        stepsBack == tildeSteps(ref0)
        targetRef == tildeBase(ref0)
        start == IF targetRef = "HEAD" THEN HeadCommit(g)
                 ELSE IF Truthy(Get(g.branches, targetRef)) THEN Get(g.branches, targetRef)
                 ELSE targetRef
        targetCommitId == WalkBack(stepsBack, start, g.commits)
        targetCommit == FindCommit(g.commits, targetCommitId)
        moved == IF g.HEAD.type = "branch"
                 THEN [newState EXCEPT !.git.branches = Put(@, g.HEAD.ref, targetCommitId)]
                 ELSE [newState EXCEPT !.git.HEAD.ref = targetCommitId]
    IN  IF mode \in {"--hard", "--soft", "--mixed"}
        THEN IF ~Truthy(targetCommitId)
             THEN formatOutput(args, newState, "fatal: Failed to resolve as a valid ref.", "error")
             ELSE IF mode = "--hard"
                  THEN formatOutput(args,
                           [(IF targetCommit.ok
                             THEN WithFS(moved, Parse(targetCommit.c.treeSnapshot))
                             ELSE moved) EXCEPT !.git.staging = <<>>],
                           "HEAD is now at", "success")
                  ELSE IF mode = "--soft"
                       THEN formatOutput(args, moved, "HEAD is now at", "success")
                       ELSE formatOutput(args, [moved EXCEPT !.git.staging = <<>>],
                                         "Unstaged changes after reset:", "success")
        ELSE IF Truthy(mode) /\ ~startsWithDash(mode)
             THEN formatOutput(args,
                      [newState EXCEPT !.git.staging = SelectSeq(@, LAMBDA f : f # mode)],
                      "", "success")
             ELSE formatOutput(args, [newState EXCEPT !.git.staging = <<>>], "", "success")

\* git revert that records the live tree and never goes back to the parent's
git_revert_KeepsTree(args, newState) ==
    LET g == newState.git
        targetRef == A(args, 2)
        commitToRevert == FindCommit(g.commits, targetRef)
        newId == NewId(g.commits)
        revertCommit == [id |-> newId,
                         message |-> <<"Revert">> \o commitToRevert.c.message,
                         parentId |-> HeadCommit(g),
                         mergeParentId |-> Undefined,
                         treeSnapshot |-> Serialize(newState.fileSystem)]
        g1 == [g EXCEPT !.commits = Append(@, revertCommit)]
        g2 == IF g.HEAD.type = "branch" THEN [g1 EXCEPT !.branches = Put(@, g.HEAD.ref, newId)] ELSE g1
    IN  IF ~Truthy(targetRef) THEN formatOutput(args, newState, "error: missing commit to revert", "error")
        ELSE IF ~commitToRevert.ok THEN formatOutput(args, newState, "fatal: bad revision", "error")
        ELSE formatOutput(args, [newState EXCEPT !.git = g2], "reverted", "success")

git_revert(args, newState) ==
    LET g == newState.git
        targetRef == A(args, 2)
        commitToRevert == FindCommit(g.commits, targetRef)
        newId == NewId(g.commits)
        parentId == HeadCommit(g)
        parentCommit == FindCommit(g.commits, commitToRevert.c.parentId)
        useParent == Truthy(commitToRevert.c.parentId) /\ parentCommit.ok
        revertedSnapshot == IF useParent THEN parentCommit.c.treeSnapshot
                            ELSE Serialize(newState.fileSystem)
        revertCommit == [id |-> newId,
                         message |-> <<"Revert">> \o commitToRevert.c.message,
                         parentId |-> parentId,
                         mergeParentId |-> Undefined,
                         treeSnapshot |-> revertedSnapshot]
        g1 == [g EXCEPT !.commits = Append(@, revertCommit)]
        g2 == IF g.HEAD.type = "branch" THEN [g1 EXCEPT !.branches = Put(@, g.HEAD.ref, newId)] ELSE g1
    IN  IF ~Truthy(targetRef) THEN formatOutput(args, newState, "error: missing commit to revert", "error")
        ELSE IF ~commitToRevert.ok THEN formatOutput(args, newState, "fatal: bad revision", "error")
        ELSE formatOutput(args,
                 [newState EXCEPT !.git = g2,
                                  !.fileSystem = IF useParent THEN Parse(revertedSnapshot) ELSE @],
                 "reverted", "success")

\* a fetch loop that takes the remote's list for the local one
FetchLoop_TakesRemote(remoteCommits, localCommits) == remoteCommits

RECURSIVE FetchLoop(_, _)
\* remote.commits.forEach of fetch and pull: copy what the local list does not hold
FetchLoop(remoteCommits, localCommits) ==
    IF remoteCommits = <<>> THEN localCommits
    ELSE FetchLoop(Tail(remoteCommits),
                   IF ~HasCommit(localCommits, Head(remoteCommits).id)
                   THEN Append(localCommits, Head(remoteCommits))
                   ELSE localCommits)

\* git fetch that also moves the local branches to the remote's pointers
git_fetch_MovesBranches(args, newState) ==
    LET g == newState.git
        remoteName == IF Truthy(A(args, 2)) THEN A(args, 2) ELSE "origin"
        remote == g.remotes[remoteName]
        fetched == FetchLoop(remote.commits, g.commits)
    IN  IF remoteName \notin DOMAIN g.remotes
        THEN formatOutput(args, newState, "fatal: does not appear to be a git repository", "error")
        ELSE formatOutput(args,
                 [newState EXCEPT !.git.commits = fetched,
                                  !.git.branches = [b \in DOMAIN @ |->
                                      IF Truthy(Get(remote.branches, b)) THEN remote.branches[b] ELSE @[b]]],
                 IF Len(fetched) = Len(g.commits) THEN "[up to date]" ELSE "[new commits]",
                 "success")

git_fetch(args, newState) ==
    LET g == newState.git
        remoteName == IF Truthy(A(args, 2)) THEN A(args, 2) ELSE "origin"
        fetched == FetchLoop(g.remotes[remoteName].commits, g.commits)
    IN  IF remoteName \notin DOMAIN g.remotes
        THEN formatOutput(args, newState, "fatal: does not appear to be a git repository", "error")
        ELSE formatOutput(args, [newState EXCEPT !.git.commits = fetched],
                          IF Len(fetched) = Len(g.commits) THEN "[up to date]" ELSE "[new commits]",
                          "success")

git_pull(args, newState) ==
    LET g == newState.git
        remoteName == IF Truthy(A(args, 2)) THEN A(args, 2) ELSE "origin"
        branchName == IF Truthy(A(args, 3)) THEN A(args, 3) ELSE g.HEAD.ref
        remote == g.remotes[remoteName]
        fetched == [newState EXCEPT !.git.commits = FetchLoop(remote.commits, g.commits)]
        remoteCommitId == Get(remote.branches, branchName)
        localCommitId == Get(g.branches, branchName)
        targetCommit == FindCommit(fetched.git.commits, remoteCommitId)
        moved == [fetched EXCEPT !.git.branches = Put(@, branchName, remoteCommitId)]
    IN  IF remoteName \notin DOMAIN g.remotes
        THEN formatOutput(args, newState, "fatal: does not appear to be a git repository", "error")
        ELSE IF ~Truthy(remoteCommitId) \/ localCommitId = remoteCommitId
        THEN formatOutput(args, fetched, "Already up to date.", "success")
        ELSE formatOutput(args,
                 IF targetCommit.ok THEN WithFS(moved, Parse(targetCommit.c.treeSnapshot)) ELSE moved,
                 "Fast-forward", "success")

\* parseInt of a token: the number it starts with, NaN otherwise
NaN == [nan |-> TRUE, n |-> 0]
Num(n) == [nan |-> FALSE, n |-> n]
parseInt(token) ==
    CASE token = "0" -> Num(0)
      [] token = "1" -> Num(1)
      [] token = "2" -> Num(2)
      [] token = "3" -> Num(3)
      [] token = "-1" -> Num(-1)
      [] OTHER -> NaN

\* x || 5 for a number x: NaN and 0 are falsy
orFive(x) == IF x.nan \/ x.n = 0 THEN 5 ELSE x.n

\* seq.slice(start)
slice(seq, start) ==
    LET from == IF start < 0
                THEN (IF Len(seq) + start < 0 THEN 0 ELSE Len(seq) + start)
                ELSE (IF start > Len(seq) THEN Len(seq) ELSE start)
    IN  SubSeq(seq, from + 1, Len(seq))

\* seq.reverse()
reverse(seq) == [i \in 1..Len(seq) |-> seq[Len(seq) + 1 - i]]

RECURSIVE join(_, _)
\* strings.join(sep)
join(strings, sep) ==
    IF strings = <<>> THEN ""
    ELSE IF Len(strings) = 1 THEN strings[1]
    ELSE strings[1] \o sep \o join(Tail(strings), sep)

\* one commit of the log; the author and date lines are left out of the text
logEntry(c, oneline) ==
    IF oneline THEN c.id \o " " \o join(c.message, " ")
    ELSE "commit " \o c.id \o "\n\n    " \o join(c.message, " ") \o "\n"

\* a log that shows the oldest commits of the list
git_log_ShowsOldest(args, newState) ==
    LET limit == IF Contains(args, "-n")
                 THEN orFive(parseInt(A(args, indexOf(args, "-n") + 1)))
                 ELSE 5
        oneline == Contains(args, "--oneline")
        shown == slice(newState.git.commits, -limit)
        commits == reverse(SubSeq(newState.git.commits, 1, Len(shown)))
    IN  IF Len(newState.git.commits) = 0
        THEN formatOutput(args, newState, "fatal: your current branch does not have any commits yet", "error")
        ELSE formatOutput(args, newState,
                          join([i \in 1..Len(commits) |-> logEntry(commits[i], oneline)], "\n"),
                          "info")

git_log(args, newState) ==
    LET limit == IF Contains(args, "-n")
                 THEN orFive(parseInt(A(args, indexOf(args, "-n") + 1)))
                 ELSE 5
        oneline == Contains(args, "--oneline")
        commits == reverse(slice(newState.git.commits, -limit))
    IN  IF Len(newState.git.commits) = 0
        THEN formatOutput(args, newState, "fatal: your current branch does not have any commits yet", "error")
        ELSE formatOutput(args, newState,
                          join([i \in 1..Len(commits) |-> logEntry(commits[i], oneline)], "\n"),
                          "info")

\* ------------------------------------------------ renderer (git status)
\* Object.keys(fileSystem)[0]
projectKey(fs) ==
    LET keys == SelectSeq(<<"project">> \o NameOrder, LAMBDA n : <<n>> \in DOMAIN fs)
    IN  IF keys = <<>> THEN Undefined ELSE Head(keys)

RECURSIVE collectFiles(_, _, _, _)
\* collectFiles(node, prefix): the files below directory p, as paths relative to the project
collectFiles(fs, p, prefix, names) ==
    IF names = <<>> THEN <<>>
    ELSE LET name == Head(names)
             q == Append(p, name)
             path == IF prefix = "" THEN name ELSE prefix \o "/" \o name
             here == IF q \notin DOMAIN fs THEN <<>>
                     ELSE IF fs[q].type = "file" THEN <<path>>
                     ELSE IF fs[q].type = "directory" /\ fs[q].children
                          THEN collectFiles(fs, q, path, NameOrder)
                          ELSE <<>>
         IN  here \o collectFiles(fs, p, prefix, Tail(names))

renderGitStatus(state) ==
    LET git == state.git
        fs == state.fileSystem
        key == projectKey(fs)
        filesInProject == IF key # Undefined /\ fs[<<key>>].children
                          THEN collectFiles(fs, <<key>>, "", NameOrder) ELSE <<>>
        modifiedFiles == git.workingDirectory.modified
        deletedFiles == git.workingDirectory.deleted
        untrackedFiles == SelectSeq(filesInProject,
                              LAMBDA file : /\ ~Contains(git.staging, file)
                                            /\ ~Contains(git.trackedFiles, file)
                                            /\ ~Contains(modifiedFiles, file))
        hasStaged == Len(git.staging) > 0
        hasUnstaged == Len(modifiedFiles) > 0 \/ Len(deletedFiles) > 0
        hasUntracked == Len(untrackedFiles) > 0
    IN  [closing |-> IF ~hasStaged /\ ~hasUnstaged /\ ~hasUntracked
                     THEN "nothing to commit, working tree clean"
                     ELSE IF ~hasStaged
                          THEN "no changes added to commit (use \"git add\" and/or \"git commit -a\")"
                          ELSE "",
         lines |-> [staged |-> git.staging, modified |-> modifiedFiles,
                    deleted |-> deletedFiles, untracked |-> untrackedFiles]]

\* git status that initialises the working-directory trackers on every call
git_status_ResetsTrackers(args, newState) ==
    LET fresh == [newState EXCEPT !.git.workingDirectory = [modified |-> <<>>, deleted |-> <<>>]]
        result == renderGitStatus(fresh)
    IN  [output |-> result.closing, type |-> "git-status", newState |-> fresh,
         structured |-> result.lines]

git_status(args, newState) ==
    LET result == renderGitStatus(newState)
    IN  [output |-> result.closing, type |-> "git-status", newState |-> newState,
         structured |-> result.lines]

\* ------------------------------------------------------------ dispatcher
git(args, newState) ==
    LET subCmd == A(args, 1) IN
    IF ~Truthy(subCmd) THEN formatOutput(args, newState, "usage: git <command>", "info")
    ELSE IF subCmd = "init" THEN git_init(args, newState)
    ELSE IF ~newState.git.repoInitialized
         THEN formatOutput(args, newState, "fatal: not a git repository", "error")
    ELSE CASE subCmd = "remote" -> git_remote(args, newState)
           [] subCmd = "status" -> git_status(args, newState)
           [] subCmd = "add" -> git_add(args, newState)
           [] subCmd = "commit" -> git_commit(args, newState)
           [] subCmd = "branch" -> git_branch(args, newState)
           [] subCmd \in {"checkout", "switch"} -> git_checkout(args, newState)
           [] subCmd = "merge" -> git_merge(args, newState)
           [] subCmd = "push" -> git_push(args, newState)
           [] subCmd = "stash" -> git_stash(args, newState)
           [] subCmd = "reset" -> git_reset(args, newState)
           [] subCmd = "revert" -> git_revert(args, newState)
           [] subCmd = "fetch" -> git_fetch(args, newState)
           [] subCmd = "pull" -> git_pull(args, newState)
           [] subCmd = "log" -> git_log(args, newState)
           [] OTHER -> formatOutput(args, newState, "Command not found: git", "error")

\* cmd.includes('->') on a line given as its token list: the tokens of the
\* command alphabet that contain the arrow
includesArrow(args) == \E k \in 1..Len(args) : args[k] = "->"

\* the tokens of a line before its first arrow
beforeArrow(args) ==
    SubSeq(args, 1, (CHOOSE k \in 1..Len(args) : args[k] = "->" /\ \A j \in 1..(k - 1) : args[j] # "->") - 1)

\* a dispatcher that runs the first step of a chained line
runSingleCommand_RunsFirstStep(args, state) ==
    LET line == IF includesArrow(args) THEN beforeArrow(args) ELSE args IN
    IF Len(line) = 0 THEN Result("", "success", state)
    ELSE LET command == A(line, 0) IN
         CASE command = "echo" -> echo(line, state)
           [] command = "cat" -> cat(line, state)
           [] command = "vim" -> vim(line, state)
           [] command = "cd" -> cd(line, state)
           [] command = "mkdir" -> mkdir(line, state)
           [] command = "touch" -> touch(line, state)
           [] command = "rm" -> rm(line, state)
           [] command = "git" -> git(line, state)
           [] OTHER -> formatOutput(line, state, "Command not found", "error")

\* args is the token list of the command line (no pipe); a line with an
\* arrow is rejected before it is split, an empty or blank line has no token
runSingleCommand(args, state) ==
    IF includesArrow(args)
    THEN Result("Invalid command format. Execute commands step-by-step.", "error", state)
    ELSE IF Len(args) = 0 THEN Result("", "success", state)
    ELSE LET command == A(args, 0) IN
         CASE command = "echo" -> echo(args, state)
           [] command = "cat" -> cat(args, state)
           [] command = "vim" -> vim(args, state)
           [] command = "cd" -> cd(args, state)
           [] command = "mkdir" -> mkdir(args, state)
           [] command = "touch" -> touch(args, state)
           [] command = "rm" -> rm(args, state)
           [] command = "git" -> git(args, state)
           [] OTHER -> formatOutput(args, state, "Command not found", "error")

executeCommand(args, state) == runSingleCommand(args, state)

\* ------------------------------------------------- MissionView handlers
\* handleVimSave(content): the next game state
VimSaved(state, content) ==
    LET fileName == state.activeEditor.file
        fs == state.fileSystem
        p == <<"project", fileName>>
        exists == <<"project">> \in DOMAIN fs /\ fs[<<"project">>].children /\ p \in DOMAIN fs
        oldContent == IF exists /\ Truthy(fs[p].content) THEN fs[p].content ELSE ""
        g == state.git
    IN  IF exists
        THEN [state EXCEPT
                 !.fileSystem = [fs EXCEPT ![p].content = content],
                 !.git.workingDirectory.modified =
                     IF /\ Contains(g.trackedFiles, fileName)
                        /\ oldContent # content
                        /\ ~Contains(@, fileName)
                        /\ ~Contains(g.staging, fileName)
                     THEN Append(@, fileName) ELSE @]
        ELSE IF <<"project">> \in DOMAIN fs /\ fs[<<"project">>].children
             THEN WithFS(state, Put(fs, p, [type |-> "file", content |-> content, children |-> FALSE]))
             ELSE state

\* ---------------------------------------------------------- state machine
\* gameState of MissionView, and the length of gameState.commandHistory, to
\* which handleCommand appends every command line it runs.  lastCommandOutput
\* is left out: the engine writes it and no modelled command reads it.
\*
\* commandHistory holds the recorded lines themselves.  The session
\* specification Spec keeps their number only (historyLen) and leaves
\* commandHistory empty; the replay specification ReplaySpec records every
\* line.  The other variables are the replay state of MissionView:
\*   isReplaying, replayPaused (state and ref), replaySpeed (state and ref),
\*   skipStep (skipStepRef), and the locals of the running handleReplay:
\*   actionsToReplay, replayState, replayIndex (the loop index i, from 1),
\*   typedLen (the length of typedCmd, 0 where no typedCmd exists) and
\*   replayPc, the await handleReplay is suspended at:
\*     "idle"      no handleReplay is running
\*     "top"       await waitForUnpause() at the top of the loop body
\*     "char"      await waitForUnpause() before a character is typed
\*     "charDelay" the timeout after a typed character
\*     "preExec"   the timeout before the command is executed
\*     "gap"       the timeout after the command was executed
VARIABLES gameState, historyLen, commandHistory, isReplaying, replayPaused,
          replaySpeed, skipStep, actionsToReplay, replayState, replayIndex,
          typedLen, replayPc,
          walkCommits, walkStart, walkStack, walkAncestors, walkExpanded, walkPc
replayVars == <<isReplaying, replayPaused, replaySpeed, skipStep, actionsToReplay,
                replayState, replayIndex, typedLen, replayPc>>
\* the ancestor walk: its commit list and start id, the stack and the visited
\* set of the loop, the ids whose parents were pushed, and the loop's position
walkVars == <<walkCommits, walkStart, walkStack, walkAncestors, walkExpanded, walkPc>>
vars == <<gameState, historyLen, commandHistory, replayVars, walkVars>>

\* the command lines the session draws from
CdTargets == {"..", "project", UnknownRef}
Refs == {"HEAD", "HEAD~1", "dev", UnknownRef}
ResetModes == {"--soft", "--mixed", "--hard"}
CheckoutTargets == BranchNames \cup {UnknownRef}

Init ==
    /\ gameState = INITIAL_STATE
    /\ historyLen = 0
    /\ commandHistory = <<>>
    /\ isReplaying = FALSE
    /\ replayPaused = FALSE
    /\ replaySpeed = 1
    /\ skipStep = FALSE
    /\ actionsToReplay = <<>>
    /\ replayState = INITIAL_STATE
    /\ replayIndex = 0
    /\ typedLen = 0
    /\ replayPc = "idle"
    /\ walkCommits = <<>>
    /\ walkStart = ""
    /\ walkStack = <<>>
    /\ walkAncestors = <<>>
    /\ walkExpanded = <<>>
    /\ walkPc = "idle"

\* handleCommand(cmd) that runs the engine whether or not a replay is running
handleCommandResult_IgnoresReplay(args) ==
    IF gameState.activeEditor.open
    THEN [called |-> FALSE, gameState |-> gameState, commandHistory |-> commandHistory]
    ELSE [called |-> TRUE,
          gameState |-> executeCommand(args, gameState).newState,
          commandHistory |-> Append(commandHistory, args)]

\* what handleCommand(cmd) does to the game state and the command history:
\* it returns at once during a replay and while the editor is open; otherwise
\* the engine is called, its result becomes the game state and the line is
\* appended to the command history.
handleCommandResult(args) ==
    IF isReplaying \/ gameState.activeEditor.open
    THEN [called |-> FALSE, gameState |-> gameState, commandHistory |-> commandHistory]
    ELSE [called |-> TRUE,
          gameState |-> executeCommand(args, gameState).newState,
          commandHistory |-> Append(commandHistory, args)]

\* handleCommand(cmd) in the session specification: the lines are counted
handleCommand(args) ==
    /\ historyLen < MaxHistory
    /\ LET result == handleCommandResult(args) IN
        /\ result.called
        /\ Len(result.gameState.git.commits) <= MaxCommits
        /\ Len(result.gameState.git.stash) <= MaxStash
        /\ gameState' = result.gameState
    /\ historyLen' = historyLen + 1
    /\ UNCHANGED walkVars
    /\ UNCHANGED <<commandHistory, replayVars>>

\* handleVimSave and handleVimExit do not look at isReplaying
handleVimSave ==
    /\ gameState.activeEditor.open
    /\ \E content \in Contents : gameState' = VimSaved(gameState, content)
    /\ UNCHANGED walkVars
    /\ UNCHANGED <<historyLen, commandHistory, replayVars>>

handleVimExit ==
    /\ gameState.activeEditor.open
    /\ gameState' = [gameState EXCEPT !.activeEditor = NoEditor]
    /\ UNCHANGED walkVars
    /\ UNCHANGED <<historyLen, commandHistory, replayVars>>

Cd == \E t \in CdTargets : handleCommand(<<"cd", t>>)
Touch == \E f \in {"readme.md", "nosuch/f"} : handleCommand(<<"touch", f>>)
Echo == \E c \in Contents : handleCommand(<<"echo", c, ">", "/project/readme.md">>)
Cat == \E f \in {"readme.md", UnknownRef} : handleCommand(<<"cat", f>>)
Rm == handleCommand(<<"rm", "readme.md">>)
Mkdir == handleCommand(<<"mkdir", "sub">>)
Vim == \E f \in {"readme.md", "sub"} : handleCommand(<<"vim", f>>)
GitInit == handleCommand(<<"git", "init">>)
GitRemoteAdd == \E r \in RemoteNames : handleCommand(<<"git", "remote", "add", r>>)
GitStatus == handleCommand(<<"git", "status">>)
GitAdd == \E f \in {"readme.md", ".", UnknownRef} : handleCommand(<<"git", "add", f>>)
GitCommit ==
    \/ \E m \in Messages : handleCommand(<<"git", "commit", "-m", m>>)
    \/ handleCommand(<<"git", "commit">>)
GitBranch ==
    \/ handleCommand(<<"git", "branch">>)
    \/ \E b \in BranchNames : handleCommand(<<"git", "branch", b>>)
GitBranchRename == \E b \in BranchNames : handleCommand(<<"git", "branch", "-M", b>>)
GitBranchDelete == \E b \in BranchNames : handleCommand(<<"git", "branch", "-d", b>>)
GitCheckout ==
    \E b \in CheckoutTargets :
        \/ handleCommand(<<"git", "checkout", b>>)
        \/ handleCommand(<<"git", "checkout", "-b", b>>)
        \/ handleCommand(<<"git", "switch", "-c", b>>)
GitMerge == \E b \in CheckoutTargets : handleCommand(<<"git", "merge", b>>)
GitPush ==
    \E r \in RemoteNames \cup {UnknownRef}, b \in {<<>>} \cup {<<n>> : n \in BranchNames} :
        handleCommand(<<"git", "push", r>> \o b)
GitStash == \E sub \in {"push", "pop"} : handleCommand(<<"git", "stash", sub>>)
GitReset == \E mode \in ResetModes, ref \in Refs : handleCommand(<<"git", "reset", mode, ref>>)
GitRevert == \E c \in {"c1", "c2", UnknownRef} : handleCommand(<<"git", "revert", c>>)
GitFetch == \E r \in RemoteNames \cup {UnknownRef} : handleCommand(<<"git", "fetch", r>>)
GitPull ==
    \E r \in RemoteNames \cup {UnknownRef}, b \in BranchNames :
        handleCommand(<<"git", "pull", r, b>>)
GitLog == \E opts \in {<<>>, <<"-n", "1">>, <<"--oneline">>} : handleCommand(<<"git", "log">> \o opts)
GitRemoteList == handleCommand(<<"git", "remote", "-v">>)
ChainedLines ==
    {<<"->">>, <<"git", "init", "->", "git", "status">>,
     <<"touch", "readme.md", "->", "cd", "..">>,
     <<"echo", "x", ">", "/project/readme.md", "->", "cat", "readme.md">>}
RejectedLine == \E args \in ChainedLines \cup {<<>>} : handleCommand(args)
GitStashList == handleCommand(<<"git", "stash", "list">>)

Next ==
    \/ Cd \/ Mkdir \/ Touch \/ Echo \/ Cat \/ Rm \/ Vim \/ handleVimSave \/ handleVimExit
    \/ GitInit \/ GitRemoteAdd \/ GitStatus \/ GitAdd \/ GitCommit
    \/ GitBranch \/ GitBranchRename \/ GitBranchDelete \/ GitCheckout
    \/ GitMerge \/ GitPush \/ GitStash \/ GitReset \/ GitRevert
    \/ GitFetch \/ GitPull \/ GitLog \/ GitRemoteList \/ GitStashList \/ RejectedLine

Spec == Init /\ [][Next]_vars

\* ------------------------------------------------ the replay specification
\* the command lines a recorded session draws from
ReplayLines ==
    {<<"git", "init">>, <<"git", "add", "readme.md">>, <<"git", "commit", "-m", "m1">>,
     <<"echo", "x", ">", "/project/readme.md">>, <<"vim", "readme.md">>}

\* handleCommand(cmd) in the replay specification: the lines are recorded
handleCommandRecorded(args) ==
    /\ Len(commandHistory) < MaxReplay
    /\ handleCommandResult(args).called
    /\ gameState' = handleCommandResult(args).gameState
    /\ commandHistory' = handleCommandResult(args).commandHistory
    /\ historyLen' = historyLen + 1
    /\ UNCHANGED walkVars
    /\ UNCHANGED replayVars

LiveCommand == \E args \in ReplayLines : handleCommandRecorded(args)

\* handleReplay up to its loop: the recorded lines are copied, the flags are
\* reset (skipStepRef and the speed are not), and the game state and the
\* local replayState become the fresh initial state
handleReplay ==
    /\ ~isReplaying
    /\ Len(commandHistory) > 0
    /\ actionsToReplay' = commandHistory
    /\ replayPaused' = FALSE
    /\ isReplaying' = TRUE
    /\ replayState' = INITIAL_STATE
    /\ gameState' = INITIAL_STATE
    /\ commandHistory' = <<>>
    /\ historyLen' = 0
    /\ replayIndex' = 1
    /\ typedLen' = 0
    /\ replayPc' = "top"
    /\ UNCHANGED walkVars
    /\ UNCHANGED <<replaySpeed, skipStep>>

\* the loop body from "Execute command" to the state update: the engine runs
\* the current line on replayState and the result is shown and kept
ReplayExecute ==
    /\ replayState' = executeCommand(actionsToReplay[replayIndex], replayState).newState
    /\ gameState' = replayState'

\* the loop body in which a requested skip drops the line instead of its
\* typing animation
ReplayTop_SkipOmits ==
    /\ replayPc = "top"
    /\ ~replayPaused
    /\ IF skipStep
       THEN /\ skipStep' = FALSE
            /\ typedLen' = 0
            /\ replayPc' = "gap"
            /\ UNCHANGED <<gameState, replayState>>
       ELSE /\ typedLen' = 0
            /\ replayPc' = "char"
            /\ UNCHANGED <<skipStep, gameState, replayState>>
    /\ UNCHANGED walkVars
    /\ UNCHANGED <<historyLen, commandHistory, isReplaying, replayPaused, replaySpeed,
                   actionsToReplay, replayIndex>>

\* the top of the loop body: waitForUnpause returns once the pause flag is
\* down; a requested skip is consumed and the line is executed at once,
\* otherwise the typing animation starts
ReplayTop ==
    /\ replayPc = "top"
    /\ ~replayPaused
    /\ IF skipStep
       THEN /\ skipStep' = FALSE
            /\ ReplayExecute
            /\ typedLen' = 0
            /\ replayPc' = "gap"
       ELSE /\ typedLen' = 0
            /\ replayPc' = "char"
            /\ UNCHANGED <<skipStep, gameState, replayState>>
    /\ UNCHANGED walkVars
    /\ UNCHANGED <<historyLen, commandHistory, isReplaying, replayPaused, replaySpeed,
                   actionsToReplay, replayIndex>>

\* the typing loop: waitForUnpause, then one more character is shown
ReplayChar ==
    /\ replayPc = "char"
    /\ ~replayPaused
    /\ typedLen' = typedLen + 1
    /\ replayPc' = "charDelay"
    /\ UNCHANGED walkVars
    /\ UNCHANGED <<gameState, historyLen, commandHistory, isReplaying, replayPaused,
                   replaySpeed, skipStep, actionsToReplay, replayState, replayIndex>>

\* the timeout after a character: the next character, or the pause before
\* the execution when the line is typed
ReplayCharDelay ==
    /\ replayPc = "charDelay"
    /\ replayPc' = IF typedLen < CmdChars THEN "char" ELSE "preExec"
    /\ UNCHANGED walkVars
    /\ UNCHANGED <<gameState, historyLen, commandHistory, isReplaying, replayPaused,
                   replaySpeed, skipStep, actionsToReplay, replayState, replayIndex, typedLen>>

\* the timeout before the execution ends and the line is executed
ReplayPreExec ==
    /\ replayPc = "preExec"
    /\ ReplayExecute
    /\ replayPc' = "gap"
    /\ UNCHANGED walkVars
    /\ UNCHANGED <<historyLen, commandHistory, isReplaying, replayPaused, replaySpeed,
                   skipStep, actionsToReplay, replayIndex, typedLen>>

\* the end of a replay that leaves the replaying flag up
ReplayGap_KeepsFlag ==
    /\ replayPc = "gap"
    /\ IF replayIndex < Len(actionsToReplay)
       THEN /\ replayIndex' = replayIndex + 1
            /\ replayPc' = "top"
            /\ UNCHANGED <<gameState, historyLen, commandHistory, isReplaying,
                           actionsToReplay, replayState, typedLen>>
       ELSE /\ gameState' = replayState
            /\ commandHistory' = actionsToReplay
            /\ historyLen' = Len(actionsToReplay)
            /\ isReplaying' = TRUE
            /\ actionsToReplay' = <<>>
            /\ replayState' = INITIAL_STATE
            /\ replayIndex' = 0
            /\ typedLen' = 0
            /\ replayPc' = "idle"
    /\ UNCHANGED walkVars
    /\ UNCHANGED <<replayPaused, replaySpeed, skipStep>>

\* the timeout between commands ends: the next line, or the end of the
\* replay, where replayState gets the replayed lines as its command history
\* and becomes the game state
ReplayGap ==
    /\ replayPc = "gap"
    /\ IF replayIndex < Len(actionsToReplay)
       THEN /\ replayIndex' = replayIndex + 1
            /\ replayPc' = "top"
            /\ UNCHANGED <<gameState, historyLen, commandHistory, isReplaying,
                           actionsToReplay, replayState, typedLen>>
       ELSE /\ gameState' = replayState
            /\ commandHistory' = actionsToReplay
            /\ historyLen' = Len(actionsToReplay)
            /\ isReplaying' = FALSE
            /\ actionsToReplay' = <<>>
            /\ replayState' = INITIAL_STATE
            /\ replayIndex' = 0
            /\ typedLen' = 0
            /\ replayPc' = "idle"
    /\ UNCHANGED walkVars
    /\ UNCHANGED <<replayPaused, replaySpeed, skipStep>>

\* the replay controls, shown while a replay is running
toggleReplayPause ==
    /\ isReplaying
    /\ replayPaused' = ~replayPaused
    /\ UNCHANGED walkVars
    /\ UNCHANGED <<gameState, historyLen, commandHistory, isReplaying, replaySpeed, skipStep,
                   actionsToReplay, replayState, replayIndex, typedLen, replayPc>>

changeReplaySpeed ==
    /\ isReplaying
    /\ replaySpeed' = CASE replaySpeed = 1 -> 2 [] replaySpeed = 2 -> 4 [] OTHER -> 1
    /\ UNCHANGED walkVars
    /\ UNCHANGED <<gameState, historyLen, commandHistory, isReplaying, replayPaused, skipStep,
                   actionsToReplay, replayState, replayIndex, typedLen, replayPc>>

skipReplayStep ==
    /\ isReplaying
    /\ skipStep' = TRUE
    /\ UNCHANGED walkVars
    /\ UNCHANGED <<gameState, historyLen, commandHistory, isReplaying, replayPaused, replaySpeed,
                   actionsToReplay, replayState, replayIndex, typedLen, replayPc>>

ReplayNext ==
    \/ LiveCommand \/ handleVimSave \/ handleVimExit \/ handleReplay
    \/ ReplayTop \/ ReplayChar \/ ReplayCharDelay \/ ReplayPreExec \/ ReplayGap
    \/ toggleReplayPause \/ changeReplaySpeed \/ skipReplayStep

ReplaySpec == Init /\ [][ReplayNext]_vars

\* the replay with its timers: a timeout that handleReplay awaits does fire,
\* and a waitForUnpause that finds the pause flag down from some point on
\* does return; the user's events (commands, editor, replay button and
\* controls) are under no obligation
ReplayFairSpec ==
    /\ Init /\ [][ReplayNext]_vars
    /\ WF_vars(ReplayTop) /\ WF_vars(ReplayChar) /\ WF_vars(ReplayCharDelay)
    /\ WF_vars(ReplayPreExec) /\ WF_vars(ReplayGap)

\* ------------------------------------------------ the ancestor walk
\* getAncestors as a loop, one iteration per step, on commit lists that no
\* session produces: parent cycles, self-parents, parents that match no commit
WalkIds(n) == {IdOf[i] : i \in 1..n}
DanglingId == "c9"

\* the lists of n commits c1..cn whose parentId and mergeParentId are drawn
\* freely from null / undefined, the ids of the list and an id of no commit
WalkLists(n) ==
    {[i \in 1..n |-> [NoCommit EXCEPT !.id = IdOf[i],
                                       !.parentId = links[i][1],
                                       !.mergeParentId = links[i][2]]] :
        links \in [1..n -> ({Null, DanglingId} \cup WalkIds(n))
                              \X ({Undefined} \cup WalkIds(n))]}

sessionVars == <<gameState, historyLen, commandHistory, replayVars>>

\* getAncestors(commitId, allCommits) is called: ancestors = new Set(), stack = [commitId]
WalkInit ==
    /\ gameState = INITIAL_STATE
    /\ historyLen = 0
    /\ commandHistory = <<>>
    /\ isReplaying = FALSE
    /\ replayPaused = FALSE
    /\ replaySpeed = 1
    /\ skipStep = FALSE
    /\ actionsToReplay = <<>>
    /\ replayState = INITIAL_STATE
    /\ replayIndex = 0
    /\ typedLen = 0
    /\ replayPc = "idle"
    /\ \E n \in 0..MaxWalk :
          /\ walkCommits \in WalkLists(n)
          /\ walkStart \in WalkIds(n) \cup {DanglingId, ""}
    /\ walkStack = <<walkStart>>
    /\ walkAncestors = <<>>
    /\ walkExpanded = <<>>
    /\ walkPc = "loop"

\* stack.pop()
walkCurrent == walkStack[Len(walkStack)]
walkRest == SubSeq(walkStack, 1, Len(walkStack) - 1)

\* an iteration that finds current new: it joins the set, then its commit's
\* parents are pushed
WalkVisit ==
    /\ walkPc = "loop"
    /\ walkStack # <<>>
    /\ Truthy(walkCurrent) /\ ~Contains(walkAncestors, walkCurrent)
    /\ walkAncestors' = Append(walkAncestors, walkCurrent)
    /\ LET f == FindCommit(walkCommits, walkCurrent)
           s1 == IF f.ok /\ Truthy(f.c.parentId) THEN Append(walkRest, f.c.parentId) ELSE walkRest
           s2 == IF f.ok /\ Truthy(f.c.mergeParentId) THEN Append(s1, f.c.mergeParentId) ELSE s1
       IN  /\ walkStack' = s2
           /\ walkExpanded' = IF f.ok THEN Append(walkExpanded, walkCurrent) ELSE walkExpanded
    /\ UNCHANGED <<walkCommits, walkStart, walkPc, sessionVars>>

\* an iteration on a visited id that leaves the id on the stack
WalkSkip_LeavesStack ==
    /\ walkPc = "loop"
    /\ walkStack # <<>>
    /\ ~(Truthy(walkCurrent) /\ ~Contains(walkAncestors, walkCurrent))
    /\ UNCHANGED <<walkStack, walkCommits, walkStart, walkAncestors, walkExpanded, walkPc, sessionVars>>

\* an iteration that finds current empty or in the set: it is only popped
WalkSkip ==
    /\ walkPc = "loop"
    /\ walkStack # <<>>
    /\ ~(Truthy(walkCurrent) /\ ~Contains(walkAncestors, walkCurrent))
    /\ walkStack' = walkRest
    /\ UNCHANGED <<walkCommits, walkStart, walkAncestors, walkExpanded, walkPc, sessionVars>>

\* stack.length is 0: return Array.from(ancestors)
WalkReturn ==
    /\ walkPc = "loop"
    /\ walkStack = <<>>
    /\ walkPc' = "done"
    /\ UNCHANGED <<walkCommits, walkStart, walkStack, walkAncestors, walkExpanded, sessionVars>>

WalkNext == WalkVisit \/ WalkSkip \/ WalkReturn

\* the loop is synchronous code: an iteration that can run does run
WalkSpec == WalkInit /\ [][WalkNext]_vars /\ WF_vars(WalkNext)

\* ================================================================ properties
\* Each property is stated over every reachable game state: the command under
\* study is applied to the state with executeCommand and its result is
\* compared with the state it was applied to.

MergeMade == "Merge made by the 'ort' strategy."
NothingToCommit == "nothing to commit, working tree clean"

\* C1: a successful git commit appends exactly one commit to the commit list,
\* empties the staging list, gives the new commit the commit HEAD pointed at
\* before as its parent (null on an unborn branch), and moves the acting
\* branch (or the detached HEAD) to the new commit; no other pointer changes.
C1_CommitAdvances ==
    \A m \in Messages :
        LET g == gameState.git
            r == executeCommand(<<"git", "commit", "-m", m>>, gameState)
            g2 == r.newState.git
            c == g2.commits[Len(g2.commits)]
            before == IF g.HEAD.type = "branch" THEN Get(g.branches, g.HEAD.ref) ELSE g.HEAD.ref
        IN  (g.repoInitialized /\ Len(g.staging) > 0) =>
                /\ r.type = "success"
                /\ g2.commits = Append(g.commits, c)
                /\ g2.staging = <<>>
                /\ c.parentId = (IF Truthy(before) THEN before ELSE Null)
                /\ IF g.HEAD.type = "branch"
                   THEN /\ g2.HEAD = g.HEAD
                        /\ DOMAIN g2.branches = DOMAIN g.branches \cup {g.HEAD.ref}
                        /\ g2.branches[g.HEAD.ref] = c.id
                        /\ \A b \in DOMAIN g.branches \ {g.HEAD.ref} : g2.branches[b] = g.branches[b]
                   ELSE /\ g2.HEAD = [type |-> "commit", ref |-> c.id]
                        /\ g2.branches = g.branches

\* two commits on main, the second the child of the first, while dev stayed
\* on the first
C1_Witness ==
    LET g == gameState.git IN
    /\ Len(g.commits) = 2
    /\ g.staging = <<>>
    /\ g.commits[1].parentId = Null
    /\ g.commits[2].parentId = g.commits[1].id
    /\ g.commits[2].message = <<"m1">>
    /\ g.HEAD = [type |-> "branch", ref |-> "main"]
    /\ Get(g.branches, "main") = g.commits[2].id
    /\ Get(g.branches, "dev") = g.commits[1].id

\* C2: git commit with an empty staging list adds no commit, moves no branch
\* pointer and leaves HEAD alone, and answers "nothing to commit"; a commit
\* without a message is an error and creates no commit either.
C2_EmptyCommitIsNoOp ==
    LET g == gameState.git
        same(r) == /\ r.newState.git.commits = g.commits
                   /\ r.newState.git.branches = g.branches
                   /\ r.newState.git.HEAD = g.HEAD
    IN  g.repoInitialized =>
            /\ \A m \in Messages :
                   LET r == executeCommand(<<"git", "commit", "-m", m>>, gameState)
                   IN  Len(g.staging) = 0 => (r.output = NothingToCommit /\ same(r))
            /\ \A args \in {<<"git", "commit">>, <<"git", "commit", "-m">>} :
                   LET r == executeCommand(args, gameState)
                   IN  r.type = "error" /\ same(r)

\* a repository with a commit and nothing staged, where both commands answer
C2_Witness ==
    LET g == gameState.git IN
    /\ g.repoInitialized
    /\ Len(g.commits) = 1
    /\ Len(g.staging) = 0
    /\ executeCommand(<<"git", "commit", "-m", "m1">>, gameState).output = NothingToCommit
    /\ executeCommand(<<"git", "commit", "-m", "m1">>, gameState).type = "info"
    /\ executeCommand(<<"git", "commit">>, gameState).type = "error"

\* C3: a merge is made exactly when the current and the target branch point
\* at different commits; it appends one commit whose first parent is the
\* current branch's previous commit and whose merge parent is the target
\* branch's commit, advances the current branch to it and leaves the target
\* branch alone.  When both point at the same commit the answer is "Already
\* up to date." and nothing changes.
C3_MergeTwoParents ==
    \A b \in BranchNames :
        LET g == gameState.git
            cur == Get(g.branches, g.HEAD.ref)
            tgt == Get(g.branches, b)
            r == executeCommand(<<"git", "merge", b>>, gameState)
            g2 == r.newState.git
            c == g2.commits[Len(g2.commits)]
        IN  g.repoInitialized =>
                /\ (r.output = MergeMade) <=> (Truthy(cur) /\ Truthy(tgt) /\ cur # tgt)
                /\ (r.output = MergeMade) =>
                       /\ r.type = "success"
                       /\ g2.commits = Append(g.commits, c)
                       /\ c.parentId = cur
                       /\ c.mergeParentId = tgt
                       /\ g2.branches[g.HEAD.ref] = c.id
                       /\ g2.branches[b] = tgt
                       /\ DOMAIN g2.branches = DOMAIN g.branches
                       /\ \A x \in DOMAIN g.branches \ {g.HEAD.ref} : g2.branches[x] = g.branches[x]
                       /\ g2.HEAD = g.HEAD
                /\ (Truthy(cur) /\ cur = tgt) =>
                       /\ r.output = "Already up to date."
                       /\ r.newState = gameState

\* main was merged with dev: the last commit has both parents and main is on it
C3_Witness ==
    LET g == gameState.git IN
    /\ Len(g.commits) = 3
    /\ g.HEAD = [type |-> "branch", ref |-> "main"]
    /\ Get(g.branches, "main") = g.commits[3].id
    /\ g.commits[3].parentId = g.commits[2].id
    /\ g.commits[3].mergeParentId = g.commits[1].id
    /\ Get(g.branches, "dev") = g.commits[1].id
    /\ executeCommand(<<"git", "merge", "main">>, gameState).output = "Already up to date."

\* the parents a commit id leads to in a commit list
ParentsOf(commits, id) ==
    {p \in UNION {{commits[i].parentId, commits[i].mergeParentId} :
                     i \in {j \in 1..Len(commits) : commits[j].id = id}} : Truthy(p)}
RECURSIVE Reachable(_, _)
\* the ids reachable from the ids of S over parent and merge-parent links
Reachable(S, commits) ==
    LET T == S \cup UNION {ParentsOf(commits, id) : id \in S}
    IN  IF T = S THEN S ELSE Reachable(T, commits)

C5_CheckoutIdempotent ==
    \A sub \in {"checkout", "switch"} :
        LET g == gameState.git
            args == <<"git", sub, g.HEAD.ref>>
            once == executeCommand(args, gameState)
            twice == executeCommand(args, once.newState)
        IN  (g.repoInitialized /\ g.HEAD.type = "branch") =>
                /\ twice.type = once.type
                /\ twice.newState = once.newState

\* a checkout of the current branch that puts the committed tree back
C5_Witness ==
    LET g == gameState.git
        once == executeCommand(<<"git", "checkout", g.HEAD.ref>>, gameState)
    IN  /\ g.repoInitialized
        /\ Len(g.commits) >= 1
        /\ once.type = "success"
        /\ once.newState.fileSystem # gameState.fileSystem
        /\ once.newState.git = g

\* C6: after a successful git reset --hard <ref> a git status reports a clean
\* working tree: nothing staged, nothing modified, nothing untracked.  Stated
\* for the resets that leave HEAD on a commit of the commit list.
C6_ResetHardIsClean ==
    \A ref \in Refs :
        LET g == gameState.git
            r == executeCommand(<<"git", "reset", "--hard", ref>>, gameState)
            status == executeCommand(<<"git", "status">>, r.newState)
        IN  (/\ g.repoInitialized
             /\ r.type = "success"
             /\ HasCommit(r.newState.git.commits, HeadCommit(r.newState.git))) =>
                /\ status.output = NothingToCommit
                /\ status.structured = NoLines

\* C7: git stash push with a non-empty staging list followed at once by git
\* stash pop gives back the staging list and the filesystem tree as they were
\* before the push, and leaves the stash stack as it was.
C7_StashRoundTrip ==
    \A push \in {<<"git", "stash", "push">>, <<"git", "stash">>} :
        LET g == gameState.git
            pushed == executeCommand(push, gameState)
            popped == executeCommand(<<"git", "stash", "pop">>, pushed.newState)
        IN  (g.repoInitialized /\ Len(g.staging) > 0) =>
                /\ pushed.type = "success"
                /\ pushed.newState.git.stash # g.stash
                /\ popped.type = "success"
                /\ popped.newState.git.staging = g.staging
                /\ popped.newState.fileSystem = gameState.fileSystem
                /\ popped.newState.git.stash = g.stash

\* an earlier entry lies on the stack, the tree was edited since, and the
\* index is not empty: the round trip has to give all three back
C7_Witness ==
    LET g == gameState.git
        pushed == executeCommand(<<"git", "stash", "push">>, gameState)
    IN  /\ g.repoInitialized
        /\ Len(g.staging) > 0
        /\ Len(g.stash) = 1
        /\ g.stash[1].fileSnapshot # Serialize(gameState.fileSystem)
        /\ Len(pushed.newState.git.stash) = 2
        /\ pushed.newState.git.staging = <<>>

\* command lines of the session and the malformed ones next to them
CommandLines ==
    {<<"cd", t>> : t \in CdTargets \cup {"readme.md", "nosuch/f"}}
    \cup {<<c, f>> : c \in {"mkdir", "touch", "cat", "vim", "rm"},
                     f \in {"readme.md", "nosuch/f", UnknownRef, "/project", "/"}}
    \cup {<<c>> : c \in {"cd", "mkdir", "touch", "cat", "vim", "rm", "echo", "git", UnknownRef}}
    \cup {<<"echo", "x", ">">>, <<"echo", "x", ">", "/project">>, <<"echo", "x", ">", "nosuch/f">>,
          <<"echo", "x", ">", "/project/readme.md">>,
          <<"cat", UnknownRef, ">", "readme.md">>, <<"git", "log", ">", "readme.md">>,
          <<"git", "merge", UnknownRef, ">", "nosuch/f">>}
    \cup {<<"git", sub>> : sub \in {"init", "remote", "status", "add", "commit", "branch", "checkout",
                                    "switch", "merge", "push", "stash", "reset", "revert", "fetch",
                                    "pull", "log", UnknownRef}}
    \cup {<<"git", "remote", "add">>, <<"git", "remote", "add", "origin">>, <<"git", "remote", "-v">>}
    \cup {<<"git", "add", f>> : f \in {"readme.md", ".", UnknownRef}}
    \cup {<<"git", "commit", "-m">>, <<"git", "commit", "-m", "m1">>}
    \cup {<<"git", "branch", b>> : b \in BranchNames \cup {"-M", "-d"}}
    \cup {<<"git", "branch", o, b>> : o \in {"-M", "-d"}, b \in CheckoutTargets}
    \cup {<<"git", sub, b>> : sub \in {"checkout", "switch", "merge"}, b \in CheckoutTargets}
    \cup {<<"git", sub, o, b>> : sub \in {"checkout", "switch"}, o \in {"-b", "-c"}, b \in CheckoutTargets}
    \cup {<<"git", sub, rn>> : sub \in {"push", "pull", "fetch"}, rn \in RemoteNames \cup {UnknownRef}}
    \cup {<<"git", sub, rn, b>> : sub \in {"push", "pull"}, rn \in RemoteNames \cup {UnknownRef},
                                  b \in CheckoutTargets}
    \cup {<<"git", "push", "-u", rn, b>> : rn \in RemoteNames \cup {UnknownRef}, b \in CheckoutTargets}
    \cup {<<"git", "stash", sub>> : sub \in {"push", "pop", "apply", "list", "clear", UnknownRef}}
    \cup {<<"git", "reset", mode>> : mode \in ResetModes \cup {"readme.md"}}
    \cup {<<"git", "reset", mode, ref>> : mode \in ResetModes, ref \in Refs \cup {"HEAD~2", "c1"}}
    \cup {<<"git", "revert", c>> : c \in {"c1", "c2", "HEAD", UnknownRef}}

C9_BranchesPointAtCommits ==
    LET g == gameState.git IN
    \A b \in DOMAIN g.branches :
        g.branches[b] = "" \/ HasCommit(g.commits, g.branches[b])

\* C10: while HEAD is attached to a branch its ref is a key of the branch
\* table, also after git branch -M <name> with the current branch's own name.
C10_HeadBranchInTable ==
    LET g == gameState.git IN
    g.HEAD.type = "branch" => g.HEAD.ref \in DOMAIN g.branches

\* C11: the local commit graph is acyclic: no commit is reached from its own
\* parents over parentId and mergeParentId links.  Commit ids are pairwise
\* different and a parent link that names a commit names an earlier one.
C11_CommitGraphAcyclic ==
    LET commits == gameState.git.commits IN
    /\ \A i \in 1..Len(commits) :
           commits[i].id \notin Reachable(ParentsOf(commits, commits[i].id), commits)
    /\ \A i, j \in 1..Len(commits) : i < j => commits[i].id # commits[j].id
    /\ \A i, j \in 1..Len(commits) :
           commits[j].id \in {commits[i].parentId, commits[i].mergeParentId} => j < i

\* a merge commit above two commits: three nodes, two of them with parents
C11_Witness ==
    LET commits == gameState.git.commits IN
    /\ Len(commits) = 3
    /\ Truthy(commits[3].mergeParentId)
    /\ Reachable({commits[3].id}, commits) = {commits[1].id, commits[2].id, commits[3].id}
    /\ Reachable({commits[1].id}, commits) = {commits[1].id}

\* C12: the commit list is append-only and its entries never change: every
\* step keeps each commit at its place with the same id, message, parentId,
\* mergeParentId and treeSnapshot, whatever happens to the live tree.
C12_CommitsImmutable ==
    [][\A i \in 1..Len(gameState.git.commits) :
           /\ i <= Len(gameState'.git.commits)
           /\ gameState'.git.commits[i] = gameState.git.commits[i]]_vars

\* the branch was moved back to the first of two commits and the live tree
\* differs from the snapshot of the second, which is still stored
C12_Witness ==
    LET g == gameState.git IN
    /\ Len(g.commits) = 2
    /\ Get(g.branches, g.HEAD.ref) = g.commits[1].id
    /\ g.commits[2].parentId = g.commits[1].id
    /\ g.commits[2].treeSnapshot # Serialize(gameState.fileSystem)
    /\ g.commits[2].treeSnapshot # g.commits[1].treeSnapshot

\* C13: in every reachable filesystem tree a node of type file has no
\* children and a node of type directory has no content.
C13_NodesWellTyped ==
    LET fs == gameState.fileSystem IN
    \A p \in DOMAIN fs :
        /\ fs[p].type = "file" => ~fs[p].children
        /\ fs[p].type = "directory" => fs[p].content = Undefined

\* C14: path resolution takes "." as a no-op segment and ".." as one level
\* up.  In a cwd of depth at least 1, ".." resolves to the parent directory
\* of the cwd and "../x" to the child x of that parent, and cd ../x succeeds
\* exactly when the parent has a directory x; at the root, cd .. is a no-op
\* and not an error.
C14_DotDotAscends ==
    LET fs == gameState.fileSystem
        cwd == gameState.cwd
        parent == SubSeq(cwd, 1, Len(cwd) - 1)
        atRoot == executeCommand(<<"cd", "..">>, gameState)
    IN  /\ resolvePath(fs, "./readme.md", cwd) = resolvePath(fs, "readme.md", cwd)
        /\ (Len(cwd) >= 1 /\ cwd \in DOMAIN fs) =>
               /\ resolvePath(fs, "..", cwd).node = Some(parent)
               /\ \A x \in {"project", "readme.md"} :
                      LET q == Append(parent, x)
                          path == "../" \o x
                      IN  /\ resolvePath(fs, path, cwd).node = (IF q \in DOMAIN fs THEN Some(q) ELSE None)
                          /\ (executeCommand(<<"cd", path>>, gameState).type = "success")
                                 <=> (q \in DOMAIN fs /\ fs[q].type = "directory")
        /\ Len(cwd) = 0 => (atRoot.type = "success" /\ atRoot.newState.cwd = <<>>)

\* C15: rm <path> on an existing file succeeds and removes exactly that node,
\* every other node staying as it was; rm <dir> without -r / -rf fails with
\* "Is a directory" and rm <missing> fails with "No such file or directory",
\* both leaving the tree unchanged.
C15_RmRemovesFile ==
    \A f \in {"readme.md", "sub", UnknownRef} :
        LET fs == gameState.fileSystem
            target == resolvePath(fs, f, gameState.cwd).node
            r == executeCommand(<<"rm", f>>, gameState)
        IN  /\ (target.ok /\ TypeOf(fs, target.p) = "file") =>
                   /\ r.type = "success"
                   /\ r.newState.fileSystem = [q \in DOMAIN fs \ {target.p} |-> fs[q]]
            /\ (target.ok /\ TypeOf(fs, target.p) = "directory") =>
                   /\ r.type = "error"
                   /\ r.output = "rm: Is a directory"
                   /\ r.newState.fileSystem = fs
            /\ ~target.ok =>
                   /\ r.type = "error"
                   /\ r.output = "rm: No such file or directory"
                   /\ r.newState.fileSystem = fs

RECURSIVE NthParent(_, _, _)
\* the id reached from id over exactly n parentId links, Undefined when the
\* links run out
NthParent(id, n, commits) ==
    IF n = 0 THEN id
    ELSE IF HasCommit(commits, id) /\ Truthy(FindCommit(commits, id).c.parentId)
         THEN NthParent(FindCommit(commits, id).c.parentId, n - 1, commits)
         ELSE Undefined

\* the refs of git reset: the text, its base and its ~N
ResetRefs ==
    {[text |-> "HEAD", base |-> "HEAD", n |-> 0], [text |-> "HEAD~1", base |-> "HEAD", n |-> 1],
     [text |-> "HEAD~2", base |-> "HEAD", n |-> 2], [text |-> "main", base |-> "main", n |-> 0],
     [text |-> "dev", base |-> "dev", n |-> 0], [text |-> "c1", base |-> "c1", n |-> 0],
     [text |-> UnknownRef, base |-> UnknownRef, n |-> 0]}
\* the commit id the base of a ref stands for
BaseOf(g, base) ==
    IF base = "HEAD" THEN HeadCommit(g)
    ELSE IF Truthy(Get(g.branches, base)) THEN Get(g.branches, base) ELSE base

C17_ResetBeyondHistoryFails ==
    \A ref \in {x \in ResetRefs : x.n > 0}, mode \in ResetModes :
        LET g == gameState.git
            target == NthParent(BaseOf(g, ref.base), ref.n, g.commits)
            r == executeCommand(<<"git", "reset", mode, ref.text>>, gameState)
        IN  (g.repoInitialized /\ HasCommit(g.commits, BaseOf(g, ref.base)) /\ target = Undefined) =>
                /\ r.type = "error"
                /\ r.newState.git.branches = g.branches
                /\ r.newState.git.HEAD = g.HEAD
                /\ r.newState.git.staging = g.staging
                /\ r.newState.fileSystem = gameState.fileSystem

\* the commit ids git revert is asked for
RevertTargets == {"c1", "c2", "c3"}

\* C18 (as amended): git revert <c> for an existing commit c appends exactly
\* one commit with the message Revert "<message of c>" and the commit HEAD
\* pointed at before as parentId, and advances the current branch to it.
\* When c's parent is a commit of the list, the new commit's treeSnapshot is
\* the parent's and the tree is set to it; when c has no such parent, the
\* snapshot is the live tree and the tree stays.  An unknown <c> answers
\* "bad revision" and changes nothing.
C18_Revert ==
    LET g == gameState.git
        unknown == executeCommand(<<"git", "revert", UnknownRef>>, gameState)
    IN  g.repoInitialized =>
            /\ unknown.type = "error"
            /\ unknown.output = "fatal: bad revision"
            /\ unknown.newState = gameState
            /\ \A c \in RevertTargets :
                   LET old == FindCommit(g.commits, c)
                       parent == FindCommit(g.commits, old.c.parentId)
                       r == executeCommand(<<"git", "revert", c>>, gameState)
                       g2 == r.newState.git
                       new == g2.commits[Len(g2.commits)]
                   IN  (old.ok /\ g.HEAD.type = "branch") =>
                           /\ r.type = "success"
                           /\ g2.commits = Append(g.commits, new)
                           /\ ~HasCommit(g.commits, new.id)
                           /\ new.message = <<"Revert">> \o old.c.message
                           /\ new.parentId = Get(g.branches, g.HEAD.ref)
                           /\ g2.branches = Put(g.branches, g.HEAD.ref, new.id)
                           /\ g2.HEAD = g.HEAD
                           /\ IF parent.ok
                              THEN /\ new.treeSnapshot = parent.c.treeSnapshot
                                   /\ r.newState.fileSystem = Parse(parent.c.treeSnapshot)
                              ELSE /\ new.treeSnapshot = Serialize(gameState.fileSystem)
                                   /\ r.newState.fileSystem = gameState.fileSystem

\* the second commit was reverted: the third carries the first one's tree,
\* which differs from the second's, and the live tree is that tree again
C18_Witness ==
    LET g == gameState.git IN
    /\ Len(g.commits) = 3
    /\ g.commits[2].parentId = g.commits[1].id
    /\ g.commits[2].treeSnapshot # g.commits[1].treeSnapshot
    /\ g.commits[3].message = <<"Revert">> \o g.commits[2].message
    /\ g.commits[3].parentId = g.commits[2].id
    /\ g.commits[3].treeSnapshot = g.commits[1].treeSnapshot
    /\ gameState.fileSystem = Parse(g.commits[1].treeSnapshot)
    /\ Get(g.branches, g.HEAD.ref) = g.commits[3].id

\* C18 (as stated): for every existing commit c, the commit appended by git
\* revert <c> carries the treeSnapshot of c's parent and the tree is set to it.
C18_RevertTakesParentTree ==
    \A c \in RevertTargets :
        LET g == gameState.git
            old == FindCommit(g.commits, c)
            parent == FindCommit(g.commits, old.c.parentId)
            r == executeCommand(<<"git", "revert", c>>, gameState)
            new == r.newState.git.commits[Len(r.newState.git.commits)]
        IN  (g.repoInitialized /\ old.ok) =>
                /\ parent.ok
                /\ new.treeSnapshot = parent.c.treeSnapshot
                /\ r.newState.fileSystem = Parse(parent.c.treeSnapshot)

\* C19: git pull <remote> <branch> is a fast-forward: when it moves the local
\* branch pointer, the commit the branch pointed at before is reachable from
\* the new one; it creates no commit; and with equal local and remote
\* pointers it answers "Already up to date." and changes neither the branch
\* table nor the tree.
C19_PullFastForwards ==
    \A rn \in RemoteNames, b \in BranchNames :
        LET g == gameState.git
            r == executeCommand(<<"git", "pull", rn, b>>, gameState)
            g2 == r.newState.git
            old == Get(g.branches, b)
            new == Get(g2.branches, b)
        IN  (g.repoInitialized /\ rn \in DOMAIN g.remotes) =>
                /\ r.type = "success"
                /\ (new # old /\ HasCommit(g.commits, old)) => old \in Reachable({new}, g2.commits)
                /\ \A i \in 1..Len(g2.commits) :
                       \/ \E j \in 1..Len(g.commits) : g.commits[j] = g2.commits[i]
                       \/ \E j \in 1..Len(g.remotes[rn].commits) : g.remotes[rn].commits[j] = g2.commits[i]
                /\ (Truthy(old) /\ old = Get(g.remotes[rn].branches, b)) =>
                       /\ r.output = "Already up to date."
                       /\ g2.branches = g.branches
                       /\ r.newState.fileSystem = gameState.fileSystem

\* C20: git fetch <remote> on a registered remote makes every commit of the
\* remote present in the local commit list, keeps what the list held and
\* repeats no id, and leaves the local branch table, HEAD, the staging list,
\* the tree and the remote as they were; on an unregistered remote it is an
\* error.
C20_FetchCopiesCommits ==
    \A args \in {<<"git", "fetch">>} \cup {<<"git", "fetch", rn>> : rn \in RemoteNames \cup {UnknownRef}} :
        LET g == gameState.git
            rn == IF Len(args) = 3 THEN args[3] ELSE "origin"
            r == executeCommand(args, gameState)
            g2 == r.newState.git
        IN  g.repoInitialized =>
                IF rn \in DOMAIN g.remotes
                THEN /\ r.type = "success"
                     /\ \A i \in 1..Len(g.remotes[rn].commits) :
                            HasCommit(g2.commits, g.remotes[rn].commits[i].id)
                     /\ Len(g2.commits) >= Len(g.commits)
                     /\ SubSeq(g2.commits, 1, Len(g.commits)) = g.commits
                     /\ \A i, j \in 1..Len(g2.commits) : i < j => g2.commits[i].id # g2.commits[j].id
                     /\ g2.branches = g.branches
                     /\ g2.HEAD = g.HEAD
                     /\ g2.staging = g.staging
                     /\ r.newState.fileSystem = gameState.fileSystem
                     /\ g2.remotes = g.remotes
                ELSE /\ r.type = "error"
                     /\ r.newState = gameState

\* origin holds a pushed commit and main has moved on since: a fetch succeeds
\* and the local main must stay ahead of origin's
C20_Witness ==
    LET g == gameState.git
        r == executeCommand(<<"git", "fetch", "origin">>, gameState)
    IN  /\ "origin" \in DOMAIN g.remotes
        /\ Len(g.remotes["origin"].commits) >= 1
        /\ Truthy(Get(g.remotes["origin"].branches, "main"))
        /\ Get(g.branches, "main") # Get(g.remotes["origin"].branches, "main")
        /\ HasCommit(g.commits, Get(g.branches, "main"))
        /\ r.type = "success"
        /\ r.output = "[up to date]"

\* the names git branch is asked for
NewBranchNames == BranchNames \cup {UnknownRef}

\* C21: git branch <name> with <name> not a key of the branch table adds the
\* entry <name> at the current commit and changes no other entry; with <name>
\* a key of the table, an unborn branch included, it is the error "already
\* exists" and the branch table stays as it was.
C21_BranchCreate ==
    \A name \in NewBranchNames :
        LET g == gameState.git
            r == executeCommand(<<"git", "branch", name>>, gameState)
            g2 == r.newState.git
            headCommit == HeadCommit(g)
        IN  g.repoInitialized =>
                IF name \in DOMAIN g.branches
                THEN /\ r.type = "error"
                     /\ r.output = "fatal: A branch already exists."
                     /\ g2.branches = g.branches
                ELSE /\ r.type = "success"
                     /\ g2.branches = Put(g.branches, name, IF Truthy(headCommit) THEN headCommit ELSE "")

\* C22: git branch -d <name> with <name> a key of the branch table, unborn or
\* not, and not the checked-out branch removes that entry and changes nothing
\* else; with <name> checked out or not in the table it is an error and the
\* state stays as it was.
C22_BranchDelete ==
    \A name \in NewBranchNames :
        LET g == gameState.git
            r == executeCommand(<<"git", "branch", "-d", name>>, gameState)
        IN  g.repoInitialized =>
                IF name \in DOMAIN g.branches /\ ~(g.HEAD.type = "branch" /\ g.HEAD.ref = name)
                THEN /\ r.type = "success"
                     /\ r.newState = [gameState EXCEPT !.git.branches = Delete(@, name)]
                ELSE /\ r.type = "error"
                     /\ r.newState = gameState

AddPaths == {"readme.md", "./readme.md", "/project/readme.md"}

\* the files of the project tree, by their path below the project directory
ProjectFiles(fs) ==
    {p[2] : p \in {q \in DOMAIN fs : Len(q) = 2 /\ q[1] = "project" /\ fs[q].type = "file"}}

\* C24: git status lists as untracked exactly the files of the project tree
\* that are neither staged nor tracked nor modified; with nothing staged,
\* tracked or modified every file of the tree is untracked and nothing is
\* listed as staged or modified; and after a successful git add of a path
\* that resolves to a file of the project tree, from any working directory,
\* that file is listed as staged and not as untracked.
C24_StatusUntracked ==
    LET g == gameState.git
        fs == gameState.fileSystem
        st == executeCommand(<<"git", "status">>, gameState).structured
    IN  g.repoInitialized =>
            /\ \A f \in ProjectFiles(fs) :
                   Contains(st.untracked, f) <=>
                       /\ ~Contains(g.staging, f)
                       /\ ~Contains(g.trackedFiles, f)
                       /\ ~Contains(g.workingDirectory.modified, f)
            /\ \A i \in 1..Len(st.untracked) : st.untracked[i] \in ProjectFiles(fs)
            /\ (g.staging = <<>> /\ g.trackedFiles = <<>> /\ g.workingDirectory.modified = <<>>) =>
                   /\ \A f \in ProjectFiles(fs) : Contains(st.untracked, f)
                   /\ st.staged = <<>>
                   /\ st.modified = <<>>
            /\ \A path \in AddPaths :
                   LET node == resolvePath(fs, path, gameState.cwd).node
                       added == executeCommand(<<"git", "add", path>>, gameState)
                       after == executeCommand(<<"git", "status">>, added.newState).structured
                   IN  (node.ok /\ Len(node.p) = 2 /\ node.p[1] = "project" /\ fs[node.p].type = "file") =>
                           /\ added.type = "success"
                           /\ Contains(after.staged, node.p[2])
                           /\ ~Contains(after.untracked, node.p[2])

\* the read-only command lines
ReadOnlyLines ==
    {<<"git", "status">>, <<"git", "branch">>, <<"git", "log">>,
     <<"git", "remote", "-v">>, <<"git", "stash", "list">>}

C26_LiveInputRejected ==
    isReplaying =>
        \A args \in ReplayLines :
            LET r == handleCommandResult(args) IN
            /\ ~r.called
            /\ r.gameState = gameState
            /\ r.commandHistory = commandHistory

\* a replay is in the middle of a line, no editor is open, and a line is
\* submitted that the engine would act on
C26_Witness ==
    /\ isReplaying
    /\ replayPc = "preExec"
    /\ replayIndex = 2
    /\ ~gameState.activeEditor.open
    /\ \E args \in ReplayLines :
           /\ executeCommand(args, gameState).newState # gameState
           /\ ~handleCommandResult(args).called

\* the number of recorded lines the running replay has executed, read off the
\* position of handleReplay: the line replayIndex is executed once the loop is
\* in the delay after it
Executed == IF replayPc = "gap" THEN replayIndex ELSE replayIndex - 1

RECURSIVE RunAll(_, _)
\* the lines executed one after the other, each on the state the previous
\* one produced
RunAll(lines, state) ==
    IF lines = <<>> THEN state
    ELSE RunAll(Tail(lines), executeCommand(Head(lines), state).newState)

\* C27: whatever pause, resume, skip and speed events come in between, a
\* replay starts on the fresh initial state with the recorded lines, every
\* step of it either executes nothing or executes exactly the next recorded
\* line on the state the previous one produced, and it ends only when every
\* line has been executed, with that state as the game state.
C27_ReplayInOrder ==
    [][/\ (~isReplaying /\ isReplaying') =>
              /\ actionsToReplay' = commandHistory
              /\ replayState' = INITIAL_STATE
              /\ Executed' = 0
       /\ (isReplaying /\ isReplaying') =>
              /\ actionsToReplay' = actionsToReplay
              /\ \/ /\ Executed' = Executed
                    /\ replayState' = replayState
                 \/ /\ Executed' = Executed + 1
                    /\ Executed' <= Len(actionsToReplay)
                    /\ replayState' =
                           executeCommand(actionsToReplay[Executed + 1], replayState).newState
       /\ (isReplaying /\ ~isReplaying') =>
              /\ Executed = Len(actionsToReplay)
              /\ replayState = RunAll(actionsToReplay, INITIAL_STATE)
              /\ gameState' = replayState
              /\ commandHistory' = actionsToReplay]_vars

\* a three-line session that ends in a commit has been replayed to its last
\* line, which was executed through a skip (nothing of it was typed), a
\* pause and two speed changes having come in between
C27_Witness ==
    /\ isReplaying
    /\ Len(actionsToReplay) = 3
    /\ replayPc = "gap"
    /\ replayIndex = 3
    /\ typedLen = 0
    /\ Len(replayState.git.commits) = 1
    /\ replayState = RunAll(actionsToReplay, INITIAL_STATE)
    /\ replayPaused
    /\ replaySpeed = 4

\* C28: while the pause flag stays up during a replay, no recorded line is
\* executed and replayState does not advance, wherever handleReplay was when
\* the pause came: between two lines, in the typing animation or in the
\* delay before the execution.
C28_PauseHalts ==
    [][(isReplaying /\ isReplaying' /\ replayPaused /\ replayPaused') =>
           /\ Executed' = Executed
           /\ replayState' = replayState]_vars

\* C29: outside a replay, executing the recorded command history on the
\* fresh initial state gives the repository state, the working directory and
\* the tree of the game state, for every session, those with files saved
\* through the editor included.
C29_SessionsReplayable ==
    ~isReplaying =>
        LET replayed == RunAll(commandHistory, INITIAL_STATE) IN
        /\ replayed.git = gameState.git
        /\ replayed.cwd = gameState.cwd
        /\ replayed.fileSystem = gameState.fileSystem

\* the git subcommands behind the not-a-repository guard, and their command
\* lines
GuardedSubcommands ==
    {"status", "add", "commit", "branch", "checkout", "merge", "push", "stash", "reset",
     "revert", "fetch", "pull", "log", "remote"}
GuardedLines == {args \in CommandLines : Len(args) >= 2 /\ args[1] = "git" /\ args[2] \in GuardedSubcommands}

\* C30: while the repository is not initialized every command line of a git
\* subcommand other than init answers with an error and changes nothing; git
\* init raises the initialized flag and changes nothing else, so that on an
\* initialized repository it changes nothing at all.
C30_NotInitializedGuard ==
    LET g == gameState.git
        init == executeCommand(<<"git", "init">>, gameState)
    IN  /\ ~g.repoInitialized =>
               \A args \in GuardedLines :
                   LET r == executeCommand(args, gameState) IN
                   /\ r.type = "error"
                   /\ r.newState = gameState
        /\ init.type = "success"
        /\ init.newState = [gameState EXCEPT !.git.repoInitialized = TRUE]

C32_ChainedOrEmptyLine ==
    /\ \A args \in ChainedLines :
          LET r == executeCommand(args, gameState)
          IN  /\ r.type = "error"
              /\ r.output = "Invalid command format. Execute commands step-by-step."
              /\ r.newState = gameState
    /\ LET r == executeCommand(<<>>, gameState)
       IN  /\ r.type = "success"
           /\ r.output = ""
           /\ r.newState = gameState

\* a state in which each first step of the chained lines, run alone, would
\* have changed the state
C32_Witness ==
    /\ historyLen > 0
    /\ \A args \in ChainedLines \ {<<"->">>} :
          /\ executeCommand(beforeArrow(args), gameState).newState # gameState
          /\ executeCommand(args, gameState).newState = gameState

\* the local commits of the ids that the remote does not hold, in the order of ids
RECURSIVE NotHeld(_, _, _)
NotHeld(ids, remoteCommits, localCommits) ==
    IF ids = <<>> THEN <<>>
    ELSE LET rest == NotHeld(Tail(ids), remoteCommits, localCommits)
         IN  IF ~HasCommit(remoteCommits, Head(ids)) /\ HasCommit(localCommits, Head(ids))
             THEN <<FindCommit(localCommits, Head(ids)).c>> \o rest
             ELSE rest

NoDuplicateIds(commits) ==
    \A i, j \in 1..Len(commits) : commits[i].id = commits[j].id => i = j

\* C33: git push appends to the remote exactly the ancestors of the pushed
\* tip that the remote does not hold; a remote never holds two commits with
\* one id nor a commit absent from the local list; with origin registered,
\* empty, and one commit, push origin main leaves the remote with exactly that
\* commit; repeating a push leaves the remote unchanged.
C33_PushCopiesMissingAncestors ==
    LET g == gameState.git IN
    /\ \A rn \in DOMAIN g.remotes :
          /\ NoDuplicateIds(g.remotes[rn].commits)
          /\ \A i \in 1..Len(g.remotes[rn].commits) :
                \E j \in 1..Len(g.commits) : g.commits[j] = g.remotes[rn].commits[i]
    /\ \A rn \in RemoteNames, b \in BranchNames :
          LET args == <<"git", "push", rn, b>>
              r == executeCommand(args, gameState)
              tip == Get(g.branches, b)
              again == executeCommand(args, r.newState)
          IN  (g.repoInitialized /\ r.type = "success") =>
                  /\ r.newState.git.remotes[rn].commits =
                         g.remotes[rn].commits
                             \o NotHeld(getAncestors(tip, g.commits), g.remotes[rn].commits, g.commits)
                  /\ \A i \in 1..Len(r.newState.git.remotes[rn].commits) :
                         \/ i <= Len(g.remotes[rn].commits)
                         \/ r.newState.git.remotes[rn].commits[i].id \in Reachable({tip}, g.commits)
                  /\ NoDuplicateIds(r.newState.git.remotes[rn].commits)
                  /\ (Len(g.commits) = 1 /\ g.remotes[rn].commits = <<>> /\ b = "main" /\ tip = g.commits[1].id)
                         => r.newState.git.remotes[rn].commits = g.commits
                  /\ again.type = "success"
                  /\ again.newState.git.remotes = r.newState.git.remotes

\* origin holds an older part of the history: a push of main has something to
\* skip and something to copy
C33_Witness ==
    LET g == gameState.git
        r == executeCommand(<<"git", "push", "origin", "main">>, gameState)
    IN  /\ g.repoInitialized
        /\ "origin" \in DOMAIN g.remotes
        /\ Len(g.remotes["origin"].commits) >= 1
        /\ r.type = "success"
        /\ Len(r.newState.git.remotes["origin"].commits) > Len(g.remotes["origin"].commits)
        /\ Cardinality(Reachable({Get(g.branches, "main")}, g.commits))
               > Len(r.newState.git.remotes["origin"].commits) - Len(g.remotes["origin"].commits)

\* the text of a log that shows the newest k commits, most recent first
LogOfNewest(commits, k, oneline) ==
    LET shown == [i \in 1..k |-> commits[Len(commits) + 1 - i]]
    IN  join([i \in 1..k |-> logEntry(shown[i], oneline)], "\n")

Min(a, b) == IF a < b THEN a ELSE b

LogShowsAtMost(counts) ==
    LET g == gameState.git IN
    g.repoInitialized =>
    \A flag \in {<<>>, <<"--oneline">>} :
        /\ \A n \in counts :
              LET r == executeCommand(<<"git", "log", "-n", ToString(n)>> \o flag, gameState)
              IN  IF Len(g.commits) = 0
                  THEN /\ r.type = "error"
                       /\ r.output = "fatal: your current branch does not have any commits yet"
                  ELSE /\ r.type = "info"
                       /\ \E k \in 0..Min(n, Len(g.commits)) :
                              r.output = LogOfNewest(g.commits, k, flag # <<>>)
        /\ LET r == executeCommand(<<"git", "log">> \o flag, gameState)
           IN  IF Len(g.commits) = 0
               THEN /\ r.type = "error"
                    /\ r.output = "fatal: your current branch does not have any commits yet"
               ELSE /\ r.type = "info"
                    /\ \E k \in 0..Len(g.commits) :
                           r.output = LogOfNewest(g.commits, k, flag # <<>>)

\* C34: git log shows the newest commits of the list, most recent first, and
\* with -n N at most N of them; with no commit it reports that the branch has
\* no commits yet.
C34_LogNewestFirst == LogShowsAtMost(0..3)

\* the same for the counts from one on
C34_LogPositiveCount == LogShowsAtMost(1..3)

\* a list of three commits, of which -n 2 shows the two newest
C34_LogWitness ==
    LET g == gameState.git IN
    /\ Len(g.commits) = 3
    /\ executeCommand(<<"git", "log", "-n", "2", "--oneline">>, gameState).output
           = LogOfNewest(g.commits, 2, TRUE)
    /\ executeCommand(<<"git", "log", "-n", "2", "--oneline">>, gameState).output
           # LogOfNewest(g.commits, 3, TRUE)

NoRepeats(seq) == \A i, j \in 1..Len(seq) : seq[i] = seq[j] => i = j
SetOf(seq) == {seq[i] : i \in 1..Len(seq)}

\* what holds at every point of the walk, and of its result
WalkSafe ==
    /\ NoRepeats(walkAncestors)
    /\ NoRepeats(walkExpanded)
    /\ SetOf(walkExpanded) \subseteq SetOf(walkAncestors)
    /\ \A k \in 1..Len(walkStack) :
          \/ walkStack[k] = walkStart
          \/ \E id \in SetOf(walkExpanded) : walkStack[k] \in ParentsOf(walkCommits, id)
    /\ walkPc = "done" =>
          /\ SetOf(walkAncestors) = Reachable({id \in {walkStart} : Truthy(id)}, walkCommits)
          /\ SetOf(walkExpanded) = {id \in SetOf(walkAncestors) : HasCommit(walkCommits, id)}
          /\ walkAncestors = getAncestors(walkStart, walkCommits)

\* C35: the ancestor walk terminates for every start id and every commit
\* list, cycles, self-parents and parents of no commit included; an id is in
\* the visited set when its parents are pushed and is expanded at most once;
\* the result is the set of ids reachable from the start over parentId and
\* mergeParentId.
C35_WalkTerminates == []WalkSafe /\ <>(walkPc = "done")

\* a finished walk over a list in which c1 and c2 are each other's parents,
\* c3 is its own merge parent and has a parent that is no commit
C35_Witness ==
    /\ walkPc = "done"
    /\ Len(walkCommits) = 3
    /\ walkCommits[1].parentId = "c2"
    /\ walkCommits[2].parentId = "c1"
    /\ walkCommits[2].mergeParentId = "c3"
    /\ walkCommits[3].parentId = DanglingId
    /\ walkCommits[3].mergeParentId = "c3"
    /\ walkStart = "c1"
    /\ SetOf(walkAncestors) = {"c1", "c2", "c3", DanglingId}

\* git add of each path of paths, one at a time and after a path of no file
AddStages(paths) ==
    LET g == gameState.git
        fs == gameState.fileSystem
    IN  g.repoInitialized =>
        /\ \A path \in paths \cup {UnknownRef, ".."}, lead \in {<<>>, <<UnknownRef>>} :
              LET r == executeCommand(<<"git", "add">> \o lead \o <<path>>, gameState)
                  h == r.newState.git
                  node == resolvePath(fs, path, gameState.cwd).node
              IN  /\ r.type = "success"
                  /\ r.output = ""
                  /\ h.commits = g.commits /\ h.branches = g.branches /\ h.HEAD = g.HEAD
                  /\ r.newState.fileSystem = fs
                  /\ NoRepeats(g.staging) => NoRepeats(h.staging)
                  /\ IF node.ok /\ TypeOf(fs, node.p) = "file"
                     THEN /\ Contains(h.staging, path)
                          /\ SetOf(h.staging) = SetOf(g.staging) \cup {path}
                          /\ ~Contains(h.workingDirectory.modified, node.p[Len(node.p)])
                     ELSE /\ h.staging = g.staging
                          /\ h.workingDirectory = g.workingDirectory
        /\ LET r == executeCommand(<<"git", "add", ".">>, gameState)
               h == r.newState.git
               here == {p \in DOMAIN fs : /\ Len(p) = Len(gameState.cwd) + 1
                                          /\ SubSeq(p, 1, Len(gameState.cwd)) = gameState.cwd
                                          /\ fs[p].type = "file"}
           IN  /\ r.type = "success"
               /\ h.commits = g.commits /\ h.branches = g.branches /\ h.HEAD = g.HEAD
               /\ r.newState.fileSystem = fs
               /\ NoRepeats(g.staging) => NoRepeats(h.staging)
               /\ SetOf(h.staging) = SetOf(g.staging) \cup {p[Len(p)] : p \in here}
               /\ \A p \in here : ~Contains(h.workingDirectory.modified, p[Len(p)])

\* C36: git add of paths stages every path that resolves to a file and takes
\* the file out of the modified tracker, ignores the others with a success
\* result, adds no duplicate to staging and leaves commits, branches, HEAD
\* and the filesystem alone; git add . stages the files directly inside the
\* working directory.
C36_AddStagesFiles == AddStages(AddPaths)

\* the same for files named by their plain name
C36_AddPlainNames == AddStages({"readme.md"})

\* C37: git push <remote> without a branch argument pushes the checked-out
\* branch: with the remote registered and a commit on the current branch it
\* succeeds and the remote's pointer of the current branch is the local one.
C37_PushRemoteOnly ==
    \A rn \in RemoteNames :
        LET g == gameState.git
            r == executeCommand(<<"git", "push", rn>>, gameState)
        IN  (/\ g.repoInitialized
             /\ rn \in DOMAIN g.remotes
             /\ g.HEAD.type = "branch"
             /\ HasCommit(g.commits, Get(g.branches, g.HEAD.ref))) =>
                /\ r.type = "success"
                /\ Get(r.newState.git.remotes[rn].branches, g.HEAD.ref) = Get(g.branches, g.HEAD.ref)

\* the lines that name a commit where a branch is expected
CommitTargetLines ==
    {<<"git", sub, t>> : sub \in {"checkout", "switch"},
                         t \in {IdOf[i] : i \in 1..MaxCommits} \cup {"HEAD", "HEAD~1"}}
    \cup {<<"git", sub, o, IdOf[1]>> : sub \in {"checkout", "switch"}, o \in {"-b", "-c"}}

CwdValid(st) ==
    LET node == resolvePath(st.fileSystem, ".", st.cwd).node
    IN  node.ok /\ TypeOf(st.fileSystem, node.p) = "directory"

\* the lines of the commands that move the working directory or replace the tree
CwdLines ==
    {<<"cd", t>> : t \in {"..", ".", "sub", "project", "../sub", "../project", "sub/..", "/project/sub",
                          "/", "readme.md", UnknownRef}}
    \cup {<<"cd">>, <<"rm", "sub">>, <<"rm", "-r", "sub">>, <<"rm", "-r", "/project">>,
          <<"git", "stash", "pop">>, <<"git", "stash", "apply">>}
    \cup {<<"git", "checkout", b>> : b \in BranchNames}
    \cup {<<"git", "reset", "--hard", ref>> : ref \in {"HEAD", "HEAD~1"}}
    \cup {<<"git", "revert", ref>> : ref \in {"HEAD", "HEAD~1"}}
    \cup {<<"git", "pull", "origin", b>> : b \in BranchNames}

\* the working directory stays valid over the lines of lines, from every
\* reachable state and from the state a cd of first leads to
CwdStaysValid(first, lines) ==
    /\ CwdValid(gameState)
    /\ \A args \in lines : CwdValid(executeCommand(args, gameState).newState)
    /\ \A t \in first :
          LET inside == executeCommand(<<"cd", t>>, gameState).newState
          IN  CwdValid(inside) =>
                  \A args \in lines : CwdValid(executeCommand(args, inside).newState)

\* C39: the working directory resolves to an existing directory of the tree
\* in every reachable state, after cd (cd .. and cd ../x included), rm,
\* checkout, reset --hard, revert, stash pop and apply, and pull.
C39_CwdIsDirectory == CwdStaysValid({"sub"}, CwdLines)

\* what the step that ends a replay leaves behind: the last recorded line has
\* been executed, the replaying flag is down, the command history is the one
\* the replay started from, and a live command line is taken as in a live
\* session, that is, unless the editor is open
ReplayEndsWell ==
    [][/\ (~isReplaying /\ isReplaying') => actionsToReplay' = commandHistory
       /\ (isReplaying /\ isReplaying') => actionsToReplay' = actionsToReplay
       /\ (isReplaying /\ ~isReplaying') =>
              /\ replayPc = "gap" /\ replayIndex = Len(actionsToReplay)
              /\ replayState = RunAll(actionsToReplay, INITIAL_STATE)
              /\ gameState' = replayState
              /\ commandHistory' = actionsToReplay
              /\ \A args \in ReplayLines :
                     handleCommandResult(args)'.called = ~gameState'.activeEditor.open
      ]_vars

====
